---- MODULE Spec2Model ----
(***************************************************************************)
(* Hierarchical mode of the petri_dish engine: PatternBank and Builder     *)
(* (src/src/builder.rs, src/src/pattern.rs).                               *)
(*                                                                         *)
(* Encoding choices                                                        *)
(*  - strength (an f64 in [0,1]) is kept in hundredths: 1.0 = 100,         *)
(*    0.5 = 50, 0.1 = 10, 0.01 = 1.  Every amount the builder adds or      *)
(*    subtracts is a whole number of hundredths.                           *)
(*  - Option<T> is a sequence of length 0 (None) or 1 (Some(x)).           *)
(*  - Operator::Literal(b) is <<"Literal", b>>, Operator::Combine(l, r)    *)
(*    is <<"Combine", l, r>>.                                              *)
(*  - a HashMap is a function whose DOMAIN is the key set; its iteration   *)
(*    order is unspecified, so every sort over it is modelled as the set   *)
(*    of all orders a stable sort can produce.                             *)
(*  - Pattern.usage_count and Builder.pair_stats are not kept: the first   *)
(*    is only incremented and never read by the bank or the builder, the   *)
(*    second is rebuilt from the stream before every read.                 *)
(*  - the alphabet has NumLiterals bytes instead of 256.                   *)
(***************************************************************************)
EXTENDS Integers, Sequences, FiniteSets, TLC

VARIABLES
    bank,           \* Builder.bank: PatternBank
    token_stream,   \* Builder.token_stream
    cycle,          \* Builder.cycle
    fed,            \* history: every byte passed to tokenize, in order
    ops,            \* history: number of operations called so far
    phases,         \* history: the phases the last learning cycle ran, in order
    world,          \* codec mode: World
    solver,         \* codec mode: Solver, and current_quota of Solver::live
    pc,             \* codec mode: where Solver::live stands
    last,           \* history: the last step of the loop of Solver::live
    feeder,         \* codec mode: Feeder (feeder_old.rs) and what its last feed returned
    host            \* hierarchical mode: the adaptive loop of main and its Feeder

vars == <<bank, token_stream, cycle, fed, ops, phases, world, solver, pc, last, feeder,
          host>>

solverVars == <<world, solver, pc, last, feeder>>

builderVars == <<bank, token_stream, cycle, fed, phases, host>>

(***************************************************************************)
(* Bounds                                                                  *)
(***************************************************************************)
NumLiterals == 2        \* size of the byte alphabet (256 in the program)
MaxCapacity == 3        \* largest pattern_capacity given to Builder::new
MaxInput == 6           \* total number of bytes tokenized
MaxChunk == 3           \* longest slice given to one tokenize call
MaxForce == 3           \* largest force_count given to forget
MaxOps == 6             \* number of operations in one run of Spec
MaxBankOps == 3         \* number of operations in one run of SpecBank
MaxBankInput == 3       \* total number of bytes tokenized in SpecBank
MaxBankIds == 1         \* ids beyond the literals given to the bank calls
MaxCycleArg == 1        \* largest cycle given to create_combine
MaxLiveOps == 9         \* number of operations in one run of SpecLive
MaxLiveInput == 28      \* total number of bytes tokenized in SpecLive
LiveCapacity == 10      \* smallest pattern_capacity of SpecLive
MaxLiveCapacity == 11   \* largest pattern_capacity of SpecLive
MemoryLimit == 16       \* memory_limit of the World
MaxRun == 6             \* longest run of one byte in a buffer loaded into the World
MaxGap == 2             \* longest run between the two long runs of a buffer
MaxLoadedRun == 3       \* largest min_count of a RunLength pattern loaded from file
MaxPatchLen == 2        \* longest replacement of the patches of the round trip
MaxQuota == 12          \* largest small processing_quota given to Solver::new
LargeQuota == 120       \* a processing_quota that pays for MetaLearn
MaxFloorOps == 5        \* number of steps in one run of SpecFloor
MaxForgetCycle == 4     \* largest cycle_count at a call of forget_if_needed in SpecEvict
MaxLastUsed == 3        \* largest last_used_cycle of a pattern in SpecEvict
MaxCreation == 1        \* largest creation_cycle of a pattern in SpecEvict
MaxShortRun == 4        \* longest short run in the buffers of SpecRle
MaxLongRun == 257       \* longest run in the buffers of SpecRle (runs from RunCountMax - 1 on)
MaxPad == 2             \* most bytes before and after the run in the buffers of SpecRle
MaxMinCount == 3        \* largest min_count given to the run-length finders
MaxFiles == 2           \* most data files the Feeder of main finds
MaxFileLen == 2         \* most bytes in a data file
MaxBaseRate == 2        \* largest config.feed_rate of main
MaxMainCycles == 4      \* largest config.max_cycles of main
RepackInputLen == 500   \* bytes in the buffer of SpecRepack
RepackMemoryLimit == 512 \* memory_limit of the World of SpecRepack
RepackCapacity == 64    \* the pattern_bank_capacity of SpecRepack that holds every pattern
MaxRepackQuota == 2     \* largest processing_quota in SpecRepack
MaxRepackOps == 7       \* number of steps in one run of SpecRepack
MaxFeedRate == 11       \* largest feed_rate given to Feeder::new
MaxFeedOps == 8         \* number of steps in one run of SpecFeed
MaxBankCapacity == 1    \* largest pattern_bank_capacity given to Solver::new
MaxSolverOps == 8       \* number of steps in one run of SpecSolver
MaxHostOps == 5         \* number of operations in one run of SpecHost
NestCapacity == 256     \* pattern_capacity of SpecNest
MaxNestOps == 256       \* number of operations in one run of SpecNest

(***************************************************************************)
(* Program constants                                                       *)
(***************************************************************************)
MAX_TOP_PAIRS == 10
STRENGTHEN_SCALE_FACTOR == 10
FORGET_CAPACITY_THRESHOLD == 80
FORGET_REMOVAL_PERCENTAGE == 10
DEFAULT_DECAY_RATE == 1         \* 0.01
PairThreshold == 2              \* Builder::new: pair_threshold
StrengthenAmount == 10          \* Builder::new: strengthen_amount = 0.1
TruthThreshold == 50            \* collapse: strength >= 0.5
LiteralStrength == 100          \* Pattern::new_literal: strength 1.0
CombineStrength == 50           \* Pattern::new_combine: strength 0.5
StrengthMax == 100              \* Pattern::strengthen: min(1.0)
ComplexityMax == 255            \* u8::MAX, saturating_add

Min(a, b) == IF a < b THEN a ELSE b

Max(a, b) == IF a > b THEN a ELSE b

None == <<>>

Some(x) == <<x>>

Bytes == 0 .. (NumLiterals - 1)

\* Byte slices of length 1..n
Inputs(n) == UNION {[1 .. k -> Bytes] : k \in 1 .. n}

(***************************************************************************)
(* Pattern (pattern.rs)                                                    *)
(***************************************************************************)
new_literal(id, byte) ==
    [id |-> id, op |-> <<"Literal", byte>>, strength |-> LiteralStrength,
     last_used |-> 0, complexity |-> 0]

new_combine(id, left_id, right_id, left_complexity, right_complexity, c) ==
    [id |-> id, op |-> <<"Combine", left_id, right_id>>,
     strength |-> CombineStrength, last_used |-> c,
     complexity |-> Min(Max(left_complexity, right_complexity) + 1, ComplexityMax)]

strengthen(p, amount, c) ==
    [p EXCEPT !.strength = Min(p.strength + amount, StrengthMax),
              !.last_used = c]

\* weaken without the lower clamp
weaken_unclamped(p, amount) == [p EXCEPT !.strength = p.strength - amount]

weaken(p, amount) == [p EXCEPT !.strength = Max(p.strength - amount, 0)]

is_literal(p) == p.op[1] = "Literal"

(***************************************************************************)
(* PatternBank (builder.rs)                                                *)
(***************************************************************************)
\* PatternBank::new: the literals 0..NumLiterals-1, no pairs
PatternBankNew(capacity) ==
    [patterns |-> [i \in Bytes |-> new_literal(i, i)],
     pair_lookup |-> [k \in {} |-> 0],
     next_id |-> NumLiterals,
     capacity |-> capacity + NumLiterals]

literal_id(byte) == byte

has_pair(b, left, right) == <<left, right>> \in DOMAIN b.pair_lookup

get_pair_id(b, left, right) ==
    IF has_pair(b, left, right) THEN Some(b.pair_lookup[<<left, right>>]) ELSE None

\* unwrap_or(0) of the child's complexity
ChildComplexity(b, id) ==
    IF id \in DOMAIN b.patterns THEN b.patterns[id].complexity ELSE 0

\* create_combine when the pair is absent: is the bank full?
BankFull(b) == Cardinality(DOMAIN b.patterns) >= b.capacity

\* HashMap::insert
MapInsert(m, k, v) == [x \in (DOMAIN m) \cup {k} |-> IF x = k THEN v ELSE m[x]]

\* HashMap::remove
MapRemove(m, k) == [x \in (DOMAIN m) \ {k} |-> m[x]]

\* create_combine with the capacity test ahead of the pair lookup
create_combine_capacity_first(b, left, right, c) ==
    IF Cardinality(DOMAIN b.patterns) >= b.capacity
    THEN [bank |-> b, ret |-> None]
    ELSE IF <<left, right>> \in DOMAIN b.pair_lookup
    THEN [bank |-> b, ret |-> Some(b.pair_lookup[<<left, right>>])]
    ELSE [bank |-> [b EXCEPT !.next_id = b.next_id + 1,
                             !.patterns = MapInsert(b.patterns, b.next_id,
                                 new_combine(b.next_id, left, right,
                                             ChildComplexity(b, left),
                                             ChildComplexity(b, right), c)),
                             !.pair_lookup = MapInsert(b.pair_lookup, <<left, right>>, b.next_id)],
          ret |-> Some(b.next_id)]

\* PatternBank::create_combine: the bank after the call and the returned Option
create_combine(b, left, right, c) ==
    IF has_pair(b, left, right)
    THEN [bank |-> b, ret |-> get_pair_id(b, left, right)]
    ELSE IF BankFull(b)
    THEN [bank |-> b, ret |-> None]
    ELSE LET id == b.next_id
             pattern == new_combine(id, left, right,
                                    ChildComplexity(b, left),
                                    ChildComplexity(b, right), c)
         IN [bank |-> [b EXCEPT !.next_id = id + 1,
                                !.patterns = MapInsert(b.patterns, id, pattern),
                                !.pair_lookup = MapInsert(b.pair_lookup, <<left, right>>, id)],
             ret |-> Some(id)]

\* The ids PatternBank::remove accepts
Removable(b, id) == id \in DOMAIN b.patterns

\* remove that gives the id back to the allocator when it was the last one
remove_rewind(b, id) ==
    IF id \in DOMAIN b.patterns
    THEN LET pattern == b.patterns[id]
             without == [b EXCEPT !.patterns = MapRemove(b.patterns, id),
                                  !.next_id = IF id + 1 = b.next_id THEN id ELSE b.next_id]
         IN [bank |-> IF pattern.op[1] = "Combine"
                      THEN [without EXCEPT !.pair_lookup =
                               MapRemove(b.pair_lookup, <<pattern.op[2], pattern.op[3]>>)]
                      ELSE without,
             ret |-> Some(pattern)]
    ELSE [bank |-> b, ret |-> None]

\* remove that leaves the pair index as it is
remove_keep_index(b, id) ==
    IF id \in DOMAIN b.patterns
    THEN [bank |-> [b EXCEPT !.patterns = MapRemove(b.patterns, id)],
          ret |-> Some(b.patterns[id])]
    ELSE [bank |-> b, ret |-> None]

\* PatternBank::remove: the bank after the call and the returned Option
remove(b, id) ==
    IF Removable(b, id)
    THEN LET pattern == b.patterns[id]
             without == [b EXCEPT !.patterns = MapRemove(b.patterns, id)]
         IN [bank |-> IF pattern.op[1] = "Combine"
                      THEN [without EXCEPT !.pair_lookup =
                               MapRemove(b.pair_lookup, <<pattern.op[2], pattern.op[3]>>)]
                      ELSE without,
             ret |-> Some(pattern)]
    ELSE [bank |-> b, ret |-> None]

\* The ids get_weakest and combine_count range over: the non-literals
Combines(b) == {id \in DOMAIN b.patterns : ~is_literal(b.patterns[id])}

combine_count(b) == Cardinality(Combines(b))

\* All results of sorting the ids S by ascending key (stable sort over an
\* unspecified iteration order) and taking the first n
RECURSIVE SortedPrefixes(_, _, _)
SortedPrefixes(S, key, n) ==
    IF n = 0 \/ S = {} THEN {<<>>}
    ELSE LET least == {x \in S : \A y \in S : key[x] <= key[y]}
         IN UNION {{<<x>> \o t : t \in SortedPrefixes(S \ {x}, key, n - 1)} : x \in least}

\* PatternBank::get_weakest: every Vec the call can return
get_weakest(b, count) ==
    SortedPrefixes(Combines(b), [id \in Combines(b) |-> b.patterns[id].strength], count)

\* PatternBank::decode, with the recursion depth bounded by fuel
RECURSIVE decode_into(_, _, _)
decode_into(b, id, fuel) ==
    IF fuel = 0 \/ id \notin DOMAIN b.patterns THEN <<>>
    ELSE LET op == b.patterns[id].op
         IN IF op[1] = "Literal" THEN <<op[2]>>
            ELSE decode_into(b, op[2], fuel - 1) \o decode_into(b, op[3], fuel - 1)

decode(b, id) == decode_into(b, id, b.next_id + 1)

RECURSIVE DecodeSeq(_, _)
DecodeSeq(b, s) ==
    IF s = <<>> THEN <<>> ELSE decode(b, Head(s)) \o DecodeSeq(b, Tail(s))

\* Builder::decode_stream
decode_stream == DecodeSeq(bank, token_stream)

(***************************************************************************)
(* PairStats and Builder (builder.rs)                                      *)
(***************************************************************************)
\* The adjacent pairs of a stream (windows(2))
Windows(s) == {<<s[i], s[i + 1]>> : i \in 1 .. (Len(s) - 1)}

\* Builder::compute_pair_stats: pair -> number of occurrences
compute_pair_stats(s) ==
    [p \in Windows(s) |->
        Cardinality({i \in 1 .. (Len(s) - 1) : <<s[i], s[i + 1]>> = p})]

\* get_top_pairs without the truncate: all pairs at or above the threshold
get_top_pairs_untruncated(counts, threshold, max_count) ==
    LET kept == {p \in DOMAIN counts : counts[p] >= threshold}
    IN SortedPrefixes(kept, [p \in kept |-> 0 - counts[p]], Cardinality(kept))

\* PairStats::get_top_pairs: every Vec the call can return (pairs with
\* count >= threshold, by descending count, truncated to max_count)
get_top_pairs(counts, threshold, max_count) ==
    LET kept == {p \in DOMAIN counts : counts[p] >= threshold}
    IN SortedPrefixes(kept, [p \in kept |-> 0 - counts[p]], max_count)

\* The amount explore adds to an existing pair seen count times:
\* strengthen_amount * (count / STRENGTHEN_SCALE_FACTOR)
ExploreAmount(count) == (StrengthenAmount * count) \div STRENGTHEN_SCALE_FACTOR

\* The loop of Builder::explore over top_pairs
RECURSIVE ExploreLoop(_, _, _, _, _)
ExploreLoop(b, top_pairs, counts, c, created) ==
    IF top_pairs = <<>> THEN [bank |-> b, created |-> created]
    ELSE LET left == Head(top_pairs)[1]
             right == Head(top_pairs)[2]
             count == counts[Head(top_pairs)]
         IN IF has_pair(b, left, right)
            THEN LET id == b.pair_lookup[<<left, right>>]
                     nb == IF id \in DOMAIN b.patterns
                           THEN [b EXCEPT !.patterns[id] =
                                    strengthen(b.patterns[id], ExploreAmount(count), c)]
                           ELSE b
                 IN ExploreLoop(nb, Tail(top_pairs), counts, c, created)
            ELSE LET r == create_combine(b, left, right, c)
                 IN ExploreLoop(r.bank, Tail(top_pairs), counts, c,
                                IF r.ret # None THEN created + 1 ELSE created)

\* Builder::explore for one order of the top pairs
explore(b, s, c, top_pairs) == ExploreLoop(b, top_pairs, compute_pair_stats(s), c, 0)

\* collapse with the strength gate left out: every indexed pair is taken
Substitutable_ungated(b, left, right) ==
    /\ has_pair(b, left, right)
    /\ b.pair_lookup[<<left, right>>] \in DOMAIN b.patterns

\* collapse: may the pair at the scan position be substituted?
Substitutable(b, left, right) ==
    /\ has_pair(b, left, right)
    /\ b.pair_lookup[<<left, right>>] \in DOMAIN b.patterns
    /\ b.patterns[b.pair_lookup[<<left, right>>]].strength >= TruthThreshold

\* The while loop of collapse with the scan advanced by one token after a
\* substitution
RECURSIVE CollapseLoop_overlap(_, _, _, _, _, _)
CollapseLoop_overlap(b, s, i, new_stream, collapsed, c) ==
    IF i > Len(s) THEN [bank |-> b, token_stream |-> new_stream, collapsed |-> collapsed]
    ELSE IF i + 1 <= Len(s) /\ Substitutable(b, s[i], s[i + 1])
    THEN CollapseLoop_overlap(b, s, i + 1,
                              Append(new_stream, b.pair_lookup[<<s[i], s[i + 1]>>]),
                              collapsed + 1, c)
    ELSE CollapseLoop_overlap(b, s, i + 1, Append(new_stream, s[i]), collapsed, c)

\* The while loop of Builder::collapse; i is the 1-based scan position
RECURSIVE CollapseLoop(_, _, _, _, _, _)
CollapseLoop(b, s, i, new_stream, collapsed, c) ==
    IF i > Len(s) THEN [bank |-> b, token_stream |-> new_stream, collapsed |-> collapsed]
    ELSE IF i + 1 <= Len(s) /\ Substitutable(b, s[i], s[i + 1])
    THEN LET combined_id == b.pair_lookup[<<s[i], s[i + 1]>>]
         IN CollapseLoop([b EXCEPT !.patterns[combined_id] =
                              strengthen(b.patterns[combined_id], StrengthenAmount, c)],
                         s, i + 2, Append(new_stream, combined_id), collapsed + 1, c)
    ELSE CollapseLoop(b, s, i + 1, Append(new_stream, s[i]), collapsed, c)

\* collapse that always reports no substitution
collapse_reports_none(b, s, c) ==
    IF Len(s) < 2 THEN [bank |-> b, token_stream |-> s, collapsed |-> 0]
    ELSE [CollapseLoop(b, s, 1, <<>>, 0, c) EXCEPT !.collapsed = 0]

\* Builder::collapse: one pass
collapse(b, s, c) ==
    IF Len(s) < 2 THEN [bank |-> b, token_stream |-> s, collapsed |-> 0]
    ELSE CollapseLoop(b, s, 1, <<>>, 0, c)

\* The repeat-collapse loop of Builder::live
RECURSIVE CollapseAll(_, _, _, _)
CollapseAll(b, s, c, total) ==
    LET r == collapse(b, s, c)
    IN IF r.collapsed = 0
       THEN [bank |-> r.bank, token_stream |-> r.token_stream, collapsed |-> total]
       ELSE CollapseAll(r.bank, r.token_stream, c, total + r.collapsed)

\* forget: the stream with every occurrence of id replaced by left, right
RECURSIVE Expand(_, _, _, _)
Expand(s, id, left, right) ==
    IF s = <<>> THEN <<>>
    ELSE (IF Head(s) = id THEN <<left, right>> ELSE <<Head(s)>>)
         \o Expand(Tail(s), id, left, right)

\* forget: how many patterns to remove
ToRemove(b, force_count) ==
    IF force_count > 0 THEN force_count
    ELSE IF combine_count(b) > (b.capacity * FORGET_CAPACITY_THRESHOLD) \div 100
    THEN (combine_count(b) * FORGET_REMOVAL_PERCENTAGE) \div 100
    ELSE 0

\* The loop of Builder::forget over weak_ids
RECURSIVE ForgetLoop(_, _, _, _)
ForgetLoop(b, s, weak_ids, removed) ==
    IF weak_ids = <<>> THEN [bank |-> b, token_stream |-> s, removed |-> removed]
    ELSE LET id == Head(weak_ids)
             ns == IF id \in DOMAIN b.patterns /\ b.patterns[id].op[1] = "Combine"
                   THEN Expand(s, id, b.patterns[id].op[2], b.patterns[id].op[3])
                   ELSE s
         IN ForgetLoop(remove(b, id).bank, ns, Tail(weak_ids), removed + 1)

\* Builder::forget for one result of get_weakest
forget(b, s, weak_ids) == ForgetLoop(b, s, weak_ids, 0)

\* decay that weakens every pattern, the literals too
decay_all(b, amount) ==
    [b EXCEPT !.patterns = [id \in DOMAIN b.patterns |-> weaken(b.patterns[id], amount)]]

\* Builder::decay
decay(b, amount) ==
    [b EXCEPT !.patterns = [id \in DOMAIN b.patterns |->
        IF ~is_literal(b.patterns[id]) THEN weaken(b.patterns[id], amount)
        ELSE b.patterns[id]]]

(***************************************************************************)
(* Codec mode: World (world.rs), Evaluator (evaluator.rs), Stats           *)
(* (stats.rs), Scheduler (scheduler.rs) and Solver (solver.rs).            *)
(*                                                                         *)
(* Encoding choices                                                        *)
(*  - a Range<usize> is [start |-> s, end |-> e], 0-based and half-open as *)
(*    in the program; Slice(data, s, e) is data[s..e].                     *)
(*  - a Patch is [range |-> r, new_data |-> bytes].                        *)
(*  - the Pattern of the codec bank (recent_gain, usage_count, ...) is not *)
(*    part of the sources; a codec pattern is [id |-> n, operator |-> op]  *)
(*    and every choice the program makes by the missing fields (the order  *)
(*    of exploit's candidates, the victim of forget_if_needed) is a        *)
(*    choice over all patterns.                                            *)
(*  - explore has the finders find_any_run_length and the LZ references of *)
(*    find_backref / find_ngram_reference; the delta, xor and dictionary   *)
(*    finders produce patches of the same shape (a range inside the        *)
(*    window, a coded replacement) and are not kept.                       *)
(***************************************************************************)
OP_RLE == 255
OP_LZ == 254
OP_DELTA == 253
OP_XOR == 252
OP_DICT == 251
MIN_ACCEPT_GAIN == 3            \* Solver::MIN_ACCEPT_GAIN
RunCountMax == 255              \* count.min(255) as u8
ExploitCost == 1                \* quota_cost of an Exploit step
ExploreCost == 10               \* quota_cost of an Explore step
SeekCost == 2                   \* quota_cost of a ShiftWindow step
MetaCost == 100                 \* quota_cost of a MetaLearn step
ExploreFloorQuota == 10         \* decide_next_action: remaining_quota >= 10
ShiftMinQuota == 5              \* decide_next_action: remaining_quota >= 5
RepackMinLen == 500             \* live: world.data.len() >= 500
RepackPressure == 92            \* live: world_pressure > 0.92, in hundredths
RepackMinData == 10             \* repack_compressed_data: world.data.len() < 10
RepackBudget == 500             \* repack_compressed_data: total_quota_budget
RepackPassBudget == 200         \* repack_compressed_data: .min(200) per pass
RepackCandidateCost == 10       \* repack_compressed_data: pass_used_quota += 10
RepackCandidatesPerPass == 20   \* repack_compressed_data: .take(20)
RepackMaxPasses == 10           \* repack_compressed_data: pass_number > 10
RepackMinSlice == 4             \* repack_compressed_data: for len in 4..=48
RepackMaxSlice == 48
DictRefLen == 3                 \* the bytes of [OP_DICT, id & 0xFF, id >> 8]
DICTIONARY_MIN_LEN == 3
DICTIONARY_CAPACITY == 512
DICTIONARY_MATCH_LIMIT == 128
PruneWarmupCycles == 30         \* prune_stale_patterns: cycle_count < 30
BASE_WINDOW_SIZE == 128
MinWindowSize == 64             \* refresh_focus_window: .max(64)
MinWindowStride == 32           \* refresh_focus_window: .max(32)

\* a.saturating_sub(b)
SatSub(a, b) == Max(a - b, 0)

\* data[start..end]
Slice(data, start, end) == SubSeq(data, start + 1, end)

\* Patch::clone_with_offset
clone_with_offset(patch, offset) ==
    [range |-> [start |-> patch.range.start + offset, end |-> patch.range.end + offset],
     new_data |-> patch.new_data]

\* World::get_data_in_range
get_data_in_range(data, range) == Slice(data, range.start, range.end)

\* World::apply_patch: splice(range, new_data)
apply_patch(data, patch) ==
    Slice(data, 0, patch.range.start) \o patch.new_data
        \o Slice(data, patch.range.end, Len(data))

\* rollback that splices over the patch's own range
rollback_patch_range(data, patch, original_data) ==
    Slice(data, 0, patch.range.start) \o original_data
        \o Slice(data, patch.range.end, Len(data))

\* World::rollback: splice(range.start .. range.start + new_data.len(), original)
rollback(data, patch, original_data) ==
    LET current_len == patch.range.start + Len(patch.new_data)
    IN Slice(data, 0, patch.range.start) \o original_data
           \o Slice(data, current_len, Len(data))

\* World::get_window_data: the window clamped to the data
get_window_data(w) ==
    Slice(w.data, Min(w.window.start, Len(w.data)), Min(w.window.end, Len(w.data)))

\* The pass of calculate_cost_breakdown with an XOR operator charged for its
\* five header bytes only
CostStep_xor_header(data, i, c_models, c_residual) ==
    LET byte == data[i + 1]
        model(op_len) == [i |-> i + op_len, c_models |-> c_models + op_len,
                          c_residual |-> c_residual]
        residual == [i |-> i + 1, c_models |-> c_models, c_residual |-> c_residual + 1]
    IN IF byte = OP_RLE /\ i + 2 < Len(data) THEN model(3)
       ELSE IF byte = OP_LZ /\ i + 3 < Len(data) THEN model(4)
       ELSE IF byte = OP_DELTA /\ i + 3 < Len(data) THEN model(4)
       ELSE IF byte = OP_XOR /\ i + 4 < Len(data)
       THEN LET op_len == 5 + data[i + 4]
            IN IF i + op_len <= Len(data)
               THEN [i |-> i + op_len, c_models |-> c_models + 5,
                     c_residual |-> c_residual]
               ELSE residual
       ELSE IF byte = OP_DICT /\ i + 2 < Len(data) THEN model(3)
       ELSE residual

\* Evaluator::calculate_cost_breakdown: one pass of the while loop at
\* 0-based position i
CostStep(data, i, c_models, c_residual) ==
    LET byte == data[i + 1]
        model(op_len) == [i |-> i + op_len, c_models |-> c_models + op_len,
                          c_residual |-> c_residual]
        residual == [i |-> i + 1, c_models |-> c_models, c_residual |-> c_residual + 1]
    IN IF byte = OP_RLE /\ i + 2 < Len(data) THEN model(3)
       ELSE IF byte = OP_LZ /\ i + 3 < Len(data) THEN model(4)
       ELSE IF byte = OP_DELTA /\ i + 3 < Len(data) THEN model(4)
       ELSE IF byte = OP_XOR /\ i + 4 < Len(data)
       THEN LET op_len == 5 + data[i + 4]
            IN IF i + op_len <= Len(data) THEN model(op_len) ELSE residual
       ELSE IF byte = OP_DICT /\ i + 2 < Len(data) THEN model(3)
       ELSE residual

\* Evaluator::calculate_cost_breakdown: at most passes passes of the while
\* loop from position i, the first half of them before the second
RECURSIVE CostPasses(_, _, _, _, _)
CostPasses(data, i, c_models, c_residual, passes) ==
    IF passes = 0 \/ i >= Len(data)
    THEN [i |-> i, c_models |-> c_models, c_residual |-> c_residual]
    ELSE IF passes = 1 THEN CostStep(data, i, c_models, c_residual)
    ELSE LET half == CostPasses(data, i, c_models, c_residual, passes \div 2)
         IN CostPasses(data, half.i, half.c_models, half.c_residual,
                       passes - passes \div 2)

\* Evaluator::calculate_cost_breakdown: the scan from 0-based position i;
\* every pass moves on, so Len(data) passes reach the end
CostScan(data, i, c_models, c_residual) ==
    LET scanned == CostPasses(data, i, c_models, c_residual, Len(data))
    IN [c_models |-> scanned.c_models, c_residual |-> scanned.c_residual]

calculate_cost_breakdown(data) == CostScan(data, 0, 0, 0)

\* Evaluator::calculate_total_cost
calculate_total_cost(data) ==
    calculate_cost_breakdown(data).c_models + calculate_cost_breakdown(data).c_residual

\* calculate_gain that credits MIN_ACCEPT_GAIN bytes to every patch
calculate_gain_inflated(cost_before, cost_after) ==
    cost_before - cost_after + MIN_ACCEPT_GAIN

\* Evaluator::calculate_gain
calculate_gain(cost_before, cost_after) == cost_before - cost_after

\* The number of bytes equal to byte from 0-based position i on: the inner
\* while loop of the run-length finders stops at the end of data or at the
\* first other byte
RunLength(data, i, byte) ==
    IF i >= Len(data) THEN 0
    ELSE LET stops == {k \in i .. Len(data) : k = Len(data) \/ data[k + 1] # byte}
         IN (CHOOSE k \in stops : \A other \in stops : k <= other) - i

\* The patch of both run-length finders for the run of count bytes at i
RlePatch(i, byte, count) ==
    [range |-> [start |-> i, end |-> i + count],
     new_data |-> <<OP_RLE, byte, Min(count, RunCountMax)>>]

\* Solver::find_any_run_length: the scan from 0-based position i
RECURSIVE AnyRunScan(_, _, _)
AnyRunScan(data, i, min_count) ==
    IF i >= Len(data) THEN None
    ELSE LET byte == data[i + 1]
             count == RunLength(data, i, byte)
         IN IF count >= min_count THEN Some(RlePatch(i, byte, count))
            ELSE AnyRunScan(data, i + count, min_count)

find_any_run_length(data, min_count) ==
    IF data = <<>> THEN None ELSE AnyRunScan(data, 0, min_count)

\* Solver::find_run_length: the scan from 0-based position i
RECURSIVE RunScan(_, _, _, _)
RunScan(data, i, target_byte, min_count) ==
    IF i >= Len(data) THEN None
    ELSE IF data[i + 1] = target_byte
    THEN LET count == RunLength(data, i, target_byte)
         IN IF count >= min_count THEN Some(RlePatch(i, target_byte, count))
            ELSE RunScan(data, i + count, target_byte, min_count)
    ELSE \* i += 1 for every byte of the run of another byte that starts at i
         RunScan(data, i + RunLength(data, i, data[i + 1]), target_byte, min_count)

find_run_length(data, target_byte, min_count) ==
    IF data = <<>> THEN None ELSE RunScan(data, 0, target_byte, min_count)

\* The patch that codes data[target .. target + len] as a reference to the
\* same bytes distance earlier
LzPatch(target, distance, len) ==
    [range |-> [start |-> target, end |-> target + len],
     new_data |-> <<OP_LZ, distance % 256, (distance \div 256) % 256, len>>]

\* The first element of a non-empty set of pairs in lexicographic order
FirstPair(pairs) ==
    CHOOSE p \in pairs :
        \A q \in pairs : p[1] < q[1] \/ (p[1] = q[1] /\ p[2] <= q[2])

\* The largest element of a non-empty set of numbers
MaxOf(numbers) == CHOOSE m \in numbers : \A k \in numbers : k <= m

\* Solver::find_ngram_reference: the longest n-gram of min_len .. max_len
\* bytes (and more than 4) that starts before data.len() - len and repeats
\* an earlier n-gram, at its first repeating position, coded as a reference
\* to its first occurrence
find_ngram_reference(data, min_len, max_len) ==
    LET n == Len(data)
        Repeats(len) ==
            {i \in 0 .. (n - len - 1) :
                \E j \in 0 .. (i - 1) : Slice(data, j, j + len) = Slice(data, i, i + len)}
        lens == {len \in min_len .. Min(max_len, n) :
                    len <= RunCountMax /\ len - 4 > 0 /\ Repeats(len) # {}}
    IN IF n < min_len * 2 \/ lens = {} THEN None
       ELSE LET len == MaxOf(lens)
                target == CHOOSE i \in Repeats(len) : \A k \in Repeats(len) : i <= k
                firsts == {j \in 0 .. (target - 1) :
                              Slice(data, j, j + len) = Slice(data, target, target + len)}
                source == CHOOSE j \in firsts : \A k \in firsts : j <= k
            IN Some(LzPatch(target, target - source, len))

\* find_backref: the number of bytes, at most max, on which data from src
\* and data from target agree
RECURSIVE MatchLen(_, _, _, _, _)
MatchLen(data, src, target, l, max) ==
    IF l < max /\ data[src + l + 1] = data[target + l + 1]
    THEN MatchLen(data, src, target, l + 1, max)
    ELSE l

\* Solver::find_backref: of four targets in the window (start + 1, 1/4, 1/2,
\* 3/4) and every source before them in the window, the first pair with the
\* longest match; the range of the patch is relative to the window
find_backref(w, min_len, max_distance) ==
    LET data == w.data
        ws == w.window.start
        we == Min(w.window.end, Len(data))
        span == we - ws
        candidates == <<ws + 1, ws + span \div 4, ws + span \div 2, ws + (3 * span) \div 4>>
        pairs == {p \in (1 .. 4) \X (ws .. we) :
                     /\ candidates[p[1]] > ws
                     /\ candidates[p[1]] + min_len <= we
                     /\ p[2] < candidates[p[1]]
                     /\ p[2] >= candidates[p[1]] - Min(candidates[p[1]] - ws, max_distance)}
        L(p) == MatchLen(data, p[2], candidates[p[1]], 0,
                         Min(we - candidates[p[1]], RunCountMax))
    IN IF span < min_len + 1 \/ pairs = {} THEN None
       ELSE LET best_len == MaxOf({L(p) : p \in pairs})
                best == FirstPair({p \in pairs : L(p) = best_len})
                best_target == candidates[best[1]]
            IN IF best_len >= min_len
               THEN Some(LzPatch(best_target - ws, best_target - best[2], best_len))
               ELSE None

\* find_delta_sequence: the length of the sequence that goes on from idx
\* with the step delta
RECURSIVE DeltaLen(_, _, _, _, _)
DeltaLen(data, idx, prev, delta, len) ==
    IF idx < Len(data) /\ len < RunCountMax /\ data[idx + 1] = (prev + delta) % 256
    THEN DeltaLen(data, idx + 1, data[idx + 1], delta, len + 1)
    ELSE len

\* Solver::find_delta_sequence: the first of the longest sequences of
\* constant step with at least min_len (and more than 4) bytes
find_delta_sequence(data, min_len) ==
    LET n == Len(data)
        Delta(start) == (data[start + 2] - data[start + 1]) % 256
        SeqLen(start) == DeltaLen(data, start + 2, data[start + 2], Delta(start), 2)
        starts == {start \in 0 .. SatSub(n, min_len) :
                      /\ start + 1 < n
                      /\ SeqLen(start) >= min_len
                      /\ SeqLen(start) - 4 > 0}
    IN IF n < min_len \/ starts = {} THEN None
       ELSE LET best_len == MaxOf({SeqLen(start) : start \in starts})
                start == CHOOSE a \in starts :
                             SeqLen(a) = best_len
                             /\ \A b \in starts : SeqLen(b) = best_len => a <= b
            IN Some([range |-> [start |-> start, end |-> start + best_len],
                     new_data |-> <<OP_DELTA, best_len, data[start + 1], Delta(start)>>])

\* find_xor_mask: the length from start on which data repeats its first
\* key_len bytes (base is data[start] ^ key[0] = 0)
RECURSIVE XorLen(_, _, _, _)
XorLen(data, start, key_len, len) ==
    IF start + len < Len(data) /\ len < 65535
           /\ data[start + len + 1] = data[start + (len % key_len) + 1]
    THEN XorLen(data, start, key_len, len + 1)
    ELSE len

\* Solver::find_xor_mask: the first <<start, key_len>> with the longest
\* repetition of a key of key_min .. key_max bytes, repeated at least
\* min_repeats times and longer than its 5 + key_len bytes of code
find_xor_mask(data, key_min, key_max, min_repeats) ==
    LET n == Len(data)
        pairs == {p \in (0 .. (n - 1)) \X (key_min .. key_max) :
                     /\ p[1] + p[2] <= n
                     /\ XorLen(data, p[1], p[2], p[2]) >= p[2] * min_repeats
                     /\ XorLen(data, p[1], p[2], p[2]) - (5 + p[2]) > 0}
    IN IF n < key_min * min_repeats \/ pairs = {} THEN None
       ELSE LET best_len == MaxOf({XorLen(data, p[1], p[2], p[2]) : p \in pairs})
                best == FirstPair({p \in pairs : XorLen(data, p[1], p[2], p[2]) = best_len})
            IN Some([range |-> [start |-> best[1], end |-> best[1] + best_len],
                     new_data |-> <<OP_XOR, best_len % 256, best_len \div 256, best[2], 0>>
                                      \o Slice(data, best[1], best[1] + best[2])])

\* Solver::explore, consider: of the candidates in order, the first with the
\* largest range.len() - new_data.len()
RECURSIVE Consider(_, _)
Consider(candidates, best_patch) ==
    IF candidates = <<>> THEN best_patch
    ELSE LET PatchGain(patch) ==
                 (patch.range.end - patch.range.start) - Len(patch.new_data)
             candidate == Head(candidates)
         IN IF candidate # None
               /\ (best_patch = None \/ PatchGain(candidate[1]) > PatchGain(best_patch[1]))
            THEN Consider(Tail(candidates), candidate)
            ELSE Consider(Tail(candidates), best_patch)

\* The reference [OP_DICT, word_id & 0xFF, (word_id >> 8) & 0xFF]
DictRef(word_id) == <<OP_DICT, word_id % 256, (word_id \div 256) % 256>>

\* The first 0-based start of bytes in data, if any
FirstOccurrence(data, bytes) ==
    LET found == {start \in 0 .. (Len(data) - Len(bytes)) :
                     Slice(data, start, start + Len(bytes)) = bytes}
    IN IF found = {} THEN None
       ELSE Some(CHOOSE start \in found : \A other \in found : start <= other)

\* The patch that codes the occurrence of a dictionary word at start
DictPatch(start, word) ==
    [range |-> [start |-> start, end |-> start + Len(word.bytes)],
     new_data |-> DictRef(word.word_id)]

\* Solver::find_dictionary_word
find_dictionary_word(dictionary_words, data, word_id) ==
    LET entry == {w \in dictionary_words : w.word_id = word_id}
    IN IF entry = {} THEN None
       ELSE LET word == CHOOSE w \in entry : TRUE
                first == FirstOccurrence(data, word.bytes)
            IN IF Len(word.bytes) = 0 \/ Len(word.bytes) > Len(data) \/ first = None
               THEN None
               ELSE Some(DictPatch(first[1], word))

\* find_dictionary_patch: the words that sort_by (longest first) and
\* take(DICTIONARY_MATCH_LIMIT) can keep; words of equal length come in
\* the order of the HashMap
TakeLongest(words, limit) ==
    IF Cardinality(words) <= limit THEN {words}
    ELSE {taken \in SUBSET words :
             /\ Cardinality(taken) = limit
             /\ \A a \in taken, b \in words \ taken : Len(a.bytes) >= Len(b.bytes)}

\* Solver::find_dictionary_patch: every Option<Patch> the call can return.
\* The first word in the order that occurs in data and saves more than any
\* word before it wins: a longest word that occurs and saves a byte.
find_dictionary_patch(dictionary_words, data) ==
    IF dictionary_words = {} \/ Len(data) < DICTIONARY_MIN_LEN THEN {None}
    ELSE UNION
         {LET found == {w \in taken : /\ Len(w.bytes) <= Len(data)
                                      /\ Len(w.bytes) - DictRefLen > 0
                                      /\ FirstOccurrence(data, w.bytes) # None}
              best == {w \in found : \A other \in found :
                                         Len(other.bytes) <= Len(w.bytes)}
          IN IF found = {} THEN {None}
             ELSE {Some(DictPatch(FirstOccurrence(data, w.bytes)[1], w)) : w \in best} :
          taken \in TakeLongest(dictionary_words, DICTIONARY_MATCH_LIMIT)}

\* Solver::explore: every Option<Patch> the call can return for the window
explore_patch(sv, w) ==
    LET slice == get_window_data(w)
    IN {Consider(<<dictionary_patch,
                   find_ngram_reference(slice, 4, 20),
                   find_ngram_reference(slice, 3, 6),
                   find_backref(w, 3, 16384),
                   find_delta_sequence(slice, 5),
                   find_xor_mask(slice, 2, 8, 3),
                   find_any_run_length(slice, 3),
                   find_any_run_length(slice, 2)>>, None) :
        dictionary_patch \in find_dictionary_patch(sv.dictionary_words, slice)}

\* Solver::exploit, the BackRef arm: the first position i >= dist whose len
\* bytes repeat the bytes dist earlier
RECURSIVE BackRefScan(_, _, _, _)
BackRefScan(data, i, dist, len) ==
    IF i + len > Len(data) THEN None
    ELSE IF i >= dist /\ Slice(data, i, i + len) = Slice(data, i - dist, i - dist + len)
    THEN Some(LzPatch(i, dist, len))
    ELSE BackRefScan(data, i + 1, dist, len)

\* Solver::find_delta_sequence_exact: the first len bytes that start with
\* start_byte and go on with the step delta
find_delta_sequence_exact(data, start_byte, delta, len) ==
    LET n == Len(data)
        starts == {start \in 0 .. SatSub(n, len) :
                      /\ start + len <= n
                      /\ data[start + 1] = start_byte
                      /\ \A offset \in 1 .. (len - 1) :
                             data[start + offset + 1] = (start_byte + offset * delta) % 256}
    IN IF len < 2 \/ len > RunCountMax \/ n < len \/ starts = {} THEN None
       ELSE LET start == CHOOSE a \in starts : \A b \in starts : a <= b
            IN Some([range |-> [start |-> start, end |-> start + len],
                     new_data |-> <<OP_DELTA, len, start_byte, delta>>])

\* a ^ b on the lowest bits bits
RECURSIVE XorBits(_, _, _)
XorBits(a, b, bits) ==
    IF bits = 0 THEN 0
    ELSE ((a + b) % 2) + 2 * XorBits(a \div 2, b \div 2, bits - 1)

\* Solver::find_xor_mask_exact: the first len bytes that are the repeated
\* key xored with base
find_xor_mask_exact(data, key, base, len) ==
    LET n == Len(data)
        starts == {start \in 0 .. SatSub(n, len) :
                      /\ start + len <= n
                      /\ \A offset \in 0 .. (len - 1) :
                             XorBits(data[start + offset + 1],
                                     key[(offset % Len(key)) + 1], 8) = base}
    IN IF key = <<>> \/ n < len \/ len > 65535 \/ starts = {} THEN None
       ELSE LET start == CHOOSE a \in starts : \A b \in starts : a <= b
            IN Some([range |-> [start |-> start, end |-> start + len],
                     new_data |-> <<OP_XOR, len % 256, len \div 256, Len(key), base>> \o key])

\* Solver::exploit: the candidate of one known pattern
ExploitCandidate(dictionary_words, data, pattern) ==
    IF pattern.operator[1] = "RunLength"
    THEN find_run_length(data, pattern.operator[2], pattern.operator[3])
    ELSE IF pattern.operator[1] = "GeneralizedRunLength"
    THEN find_any_run_length(data, pattern.operator[2])
    ELSE IF pattern.operator[1] = "BackRef"
    THEN LET len == Min(pattern.operator[3], RunCountMax)
         IN IF Len(data) >= len /\ pattern.operator[2] > 0
            THEN BackRefScan(data, 0, pattern.operator[2], len)
            ELSE None
    ELSE IF pattern.operator[1] = "DeltaSequence"
    THEN find_delta_sequence_exact(data, pattern.operator[2], pattern.operator[3],
                                   pattern.operator[4])
    ELSE IF pattern.operator[1] = "XorMask"
    THEN find_xor_mask_exact(data, pattern.operator[2], pattern.operator[3],
                             pattern.operator[4])
    ELSE IF pattern.operator[1] = "Dictionary"
    THEN find_dictionary_word(dictionary_words, data, pattern.operator[2])
    ELSE None

\* original_len.saturating_sub(encoded_len)
SavedBytes(patch) == Max((patch.range.end - patch.range.start) - Len(patch.new_data), 0)

\* Solver::exploit: every Option<(Patch, pattern_id)> the call can return.
\* The first candidate with the most saved bytes wins; the order of the
\* candidates is by recent_gain, so any candidate with the most saved bytes
\* can be the first.
exploit(known_patterns, dictionary_words, data) ==
    LET candidate(i) == ExploitCandidate(dictionary_words, data, known_patterns[i])
        found == {i \in 1 .. Len(known_patterns) : candidate(i) # None}
        best == {i \in found :
                    \A j \in found :
                        SavedBytes(candidate(j)[1]) <= SavedBytes(candidate(i)[1])}
    IN IF found = {} THEN {None}
       ELSE {Some(<<candidate(i)[1], known_patterns[i].id>>) : i \in best}

\* Solver::identify_operator
identify_operator(patch) ==
    IF Len(patch.new_data) = 3 /\ patch.new_data[1] = OP_RLE
    THEN <<"RunLength", patch.new_data[2], patch.new_data[3]>>
    ELSE IF Len(patch.new_data) = 4 /\ patch.new_data[1] = OP_LZ
    THEN <<"BackRef", patch.new_data[2] + 256 * patch.new_data[3], patch.new_data[4]>>
    ELSE IF Len(patch.new_data) = 4 /\ patch.new_data[1] = OP_DELTA
    THEN <<"DeltaSequence", patch.new_data[3], patch.new_data[4], patch.new_data[2]>>
    ELSE IF Len(patch.new_data) >= 5 /\ patch.new_data[1] = OP_XOR
            /\ Len(patch.new_data) >= 5 + patch.new_data[4]
    THEN <<"XorMask", Slice(patch.new_data, 5, 5 + patch.new_data[4]), patch.new_data[5],
           patch.new_data[2] + 256 * patch.new_data[3]>>
    ELSE IF Len(patch.new_data) = 3 /\ patch.new_data[1] = OP_DICT
    THEN <<"Dictionary", patch.new_data[2] + 256 * patch.new_data[3]>>
    ELSE <<"RunLength", 0, 0>>

\* Stats::new.  A gain_per_quota field (an f64 quotient) is the pair
\* <<bytes_saved, quota_spent>> it was last computed from; <<0, 1>> is 0.0
StatsNew ==
    [gain_per_quota_exploit |-> <<0, 1>>, gain_per_quota_explore |-> <<0, 1>>,
     gain_per_quota_meta |-> <<0, 1>>, c_models |-> 0, c_residual |-> 0,
     quota_spent_exploit |-> 0, quota_spent_explore |-> 0,
     quota_spent_meta |-> 0, quota_spent_seek |-> 0,
     bytes_saved_exploit |-> 0, bytes_saved_explore |-> 0, bytes_saved_meta |-> 0]

\* Stats::reset_cycle
reset_cycle(st) ==
    [st EXCEPT !.quota_spent_exploit = 0, !.quota_spent_explore = 0,
               !.quota_spent_meta = 0, !.quota_spent_seek = 0,
               !.bytes_saved_exploit = 0, !.bytes_saved_explore = 0,
               !.bytes_saved_meta = 0]

\* Stats::update_gain_per_quota
update_gain_per_quota(st) ==
    [st EXCEPT
        !.gain_per_quota_exploit =
            IF st.quota_spent_exploit > 0
            THEN <<st.bytes_saved_exploit, st.quota_spent_exploit>> ELSE @,
        !.gain_per_quota_explore =
            IF st.quota_spent_explore > 0
            THEN <<st.bytes_saved_explore, st.quota_spent_explore>> ELSE @,
        !.gain_per_quota_meta =
            IF st.quota_spent_meta > 0
            THEN <<st.bytes_saved_meta, st.quota_spent_meta>> ELSE @]

\* Stats::record_exploit
record_exploit(st, quota_spent, bytes_saved) ==
    update_gain_per_quota(
        [st EXCEPT !.quota_spent_exploit = @ + quota_spent,
                   !.bytes_saved_exploit = @ + bytes_saved])

\* Stats::record_explore
record_explore(st, quota_spent, bytes_saved) ==
    update_gain_per_quota(
        [st EXCEPT !.quota_spent_explore = @ + quota_spent,
                   !.bytes_saved_explore = @ + bytes_saved])

\* Stats::record_meta
record_meta(st, quota_spent, bytes_saved) ==
    update_gain_per_quota(
        [st EXCEPT !.quota_spent_meta = @ + quota_spent,
                   !.bytes_saved_meta = @ + bytes_saved])

\* Stats::record_seek
record_seek(st, quota_spent) == [st EXCEPT !.quota_spent_seek = @ + quota_spent]

\* Stats::update_costs
update_costs(st, c_models, c_residual) ==
    [st EXCEPT !.c_models = c_models, !.c_residual = c_residual]

\* Stats::total_gain
total_gain(st) == st.bytes_saved_exploit + st.bytes_saved_explore + st.bytes_saved_meta

\* Stats::total_quota_spent
total_quota_spent(st) ==
    st.quota_spent_exploit + st.quota_spent_explore + st.quota_spent_meta
        + st.quota_spent_seek

\* Scheduler::decide_next_action: every Action the call can return.  The
\* random draws leave MetaLearn possible on every step past the explore
\* floor, ShiftWindow certain when the cycle's gain is <= 0 and possible
\* when remaining_quota >= 5, and Exploit and Explore both possible after.
\* risk_budget_ratio is 0.1: the floor is ceil(cycle_quota / 10).
\* decide_next_action without the risk budget: the random draws alone
decide_next_action_no_floor(st, remaining_quota, cycle_quota) ==
    IF total_gain(st) <= 0
    THEN {"MetaLearn", "ShiftWindow"}
    ELSE {"MetaLearn", "Exploit", "Explore"}
             \cup (IF remaining_quota >= ShiftMinQuota THEN {"ShiftWindow"} ELSE {})

\* decide_next_action without the stagnation test: past the floor every
\* Action is possible whatever the cycle has gained
decide_next_action_gain_blind(st, remaining_quota, cycle_quota) ==
    IF st.quota_spent_explore < (cycle_quota + 9) \div 10
       /\ remaining_quota >= ExploreFloorQuota
    THEN {"Explore"}
    ELSE {"MetaLearn", "Exploit", "Explore", "ShiftWindow"}

decide_next_action(st, remaining_quota, cycle_quota) ==
    LET required_explore_quota == (cycle_quota + 9) \div 10
    IN IF st.quota_spent_explore < required_explore_quota
          /\ remaining_quota >= ExploreFloorQuota
       THEN {"Explore"}
       ELSE decide_next_action_no_floor(st, remaining_quota, cycle_quota)

\* Solver::new; window_fraction is in percent, clamped to [10, 100]
SolverNew(processing_quota, pattern_bank_capacity, window_fraction) ==
    [processing_quota |-> processing_quota,
     known_patterns |-> <<>>,
     next_pattern_id |-> 0,
     pattern_bank_capacity |-> pattern_bank_capacity,
     stats |-> StatsNew,
     window_size |-> BASE_WINDOW_SIZE,
     window_stride |-> Max(BASE_WINDOW_SIZE \div 2, MinWindowStride),
     current_window_start |-> 0,
     zero_gain_streak |-> 0,
     window_cap_fraction |-> Max(Min(window_fraction, 100), 10),
     last_world_len |-> 0,
     cycle_count |-> 0,
     current_quota |-> 0,
     dictionary_words |-> {},
     next_word_id |-> 0]

\* Solver::load_or_new when the pattern file holds patterns
SolverLoad(processing_quota, pattern_bank_capacity, window_fraction, patterns) ==
    [SolverNew(processing_quota, pattern_bank_capacity, window_fraction) EXCEPT
        !.known_patterns = patterns,
        !.next_pattern_id =
            (IF patterns = <<>> THEN 0
             ELSE CHOOSE m \in {patterns[i].id : i \in 1 .. Len(patterns)} :
                      \A i \in 1 .. Len(patterns) : patterns[i].id <= m) + 1,
        !.window_stride = 64]

\* World::new(memory_limit) followed by load_data(data)
WorldNew(memory_limit, data) ==
    [data |-> data, memory_limit |-> memory_limit, window |-> [start |-> 0, end |-> 0]]

\* Solver::refresh_focus_window: the solver and the world after the call
refresh_focus_window(sv, w) ==
    IF w.data = <<>>
    THEN [solver |-> [sv EXCEPT !.current_window_start = 0, !.last_world_len = 0],
          world |-> [w EXCEPT !.window = [start |-> 0, end |-> 0]]]
    ELSE LET data_len == Len(w.data)
             grown == data_len > sv.last_world_len
             tail_start == SatSub(data_len, sv.window_size)
             start1 == IF grown /\ tail_start > sv.current_window_start
                       THEN tail_start ELSE sv.current_window_start
             last_len == IF grown THEN data_len ELSE sv.last_world_len
             size == Max(Min(sv.window_size, data_len), MinWindowSize)
             stride == Max(size \div 2, MinWindowStride)
             sv1 == [sv EXCEPT !.last_world_len = last_len, !.window_size = size,
                               !.window_stride = stride]
         IN IF size >= data_len
            THEN [solver |-> [sv1 EXCEPT !.current_window_start = 0],
                  world |-> [w EXCEPT !.window = [start |-> 0, end |-> data_len]]]
            ELSE LET start2 == IF start1 + size > data_len
                               THEN SatSub(data_len, size) ELSE start1
                     end == Min(start2 + size, data_len)
                     adjusted_start == IF end - start2 < size
                                       THEN SatSub(end, size) ELSE start2
                 IN [solver |-> [sv1 EXCEPT !.current_window_start = adjusted_start],
                     world |-> [w EXCEPT !.window =
                                  [start |-> adjusted_start,
                                   end |-> adjusted_start
                                            + Min(size, data_len - adjusted_start)]]]

\* Solver::advance_window
advance_window(sv, w) ==
    IF w.data = <<>> \/ sv.window_size >= Len(w.data)
    THEN [sv EXCEPT !.current_window_start = 0]
    ELSE LET next_start == sv.current_window_start + Max(sv.window_stride, 1)
         IN [sv EXCEPT !.current_window_start =
                IF next_start + sv.window_size >= Len(w.data) THEN 0 ELSE next_start]

\* Solver::adjust_window_size_after_cycle (ZERO_STREAK_THRESHOLD 3,
\* GROWTH_FACTOR 1.5; round(x * 1.5) = (3x + 1) div 2)
adjust_window_size_after_cycle(sv, w) ==
    LET max_allowed == Max((w.memory_limit * sv.window_cap_fraction + 50) \div 100,
                           BASE_WINDOW_SIZE)
        grow == sv.zero_gain_streak >= 3 /\ sv.window_size < max_allowed
        expanded == (3 * sv.window_size + 1) \div 2
        size1 == IF grow
                 THEN Max(Min(Min(expanded, max_allowed), w.memory_limit), BASE_WINDOW_SIZE)
                 ELSE sv.window_size
        sv1 == IF grow
               THEN [sv EXCEPT !.window_size = size1,
                               !.window_stride = Max(size1 \div 2, MinWindowStride),
                               !.zero_gain_streak = 0]
               ELSE sv
    IN IF Len(w.data) < size1
       THEN LET size2 == Max(Len(w.data), Min(BASE_WINDOW_SIZE, Len(w.data)))
            IN [sv1 EXCEPT !.window_size = size2,
                           !.window_stride = Max(size2 \div 2, MinWindowStride),
                           !.current_window_start =
                               Min(sv1.current_window_start, SatSub(Len(w.data), size2))]
       ELSE sv1

\* The sequence without its i-th element (Vec::remove)
RemoveAt(seq, i) == SubSeq(seq, 1, i - 1) \o SubSeq(seq, i + 1, Len(seq))

\* The weights of forget_if_needed's score, in hundredths
UsageWeight == 50               \* usage_bonus = sqrt(usage_count) * 0.5
HistoricalWeight == 15          \* historical_bonus = sqrt(total_bytes_saved) * 0.15
IdleWeight == 35                \* idle_penalty = idle_cycles * 0.35

\* f64::sqrt on the perfect squares the bounded inputs carry
Sqrt(n) == CHOOSE r \in 0 .. n : r * r = n

\* forget_if_needed: idle_cycles of a pattern; the baseline is
\* last_used_cycle, else creation_cycle, else the current cycle
IdleCycles(pattern, current_cycle) ==
    LET baseline_cycle == IF pattern.last_used_cycle # 0 THEN pattern.last_used_cycle
                          ELSE IF pattern.creation_cycle # 0 THEN pattern.creation_cycle
                          ELSE current_cycle
    IN SatSub(current_cycle, baseline_cycle)

\* forget_if_needed: score of a pattern, in hundredths (recent_gain is in
\* hundredths)
ForgetScore(pattern, current_cycle) ==
    pattern.recent_gain
      + Sqrt(pattern.usage_count) * UsageWeight
      + Sqrt(Max(pattern.total_bytes_saved, 0)) * HistoricalWeight
      - IdleCycles(pattern, current_cycle) * IdleWeight

\* Solver::forget_if_needed on patterns that carry their statistics: while
\* the bank is over capacity, the first pattern of strictly lowest score goes
RECURSIVE forget_if_needed_scored(_, _, _)
forget_if_needed_scored(known_patterns, capacity, current_cycle) ==
    IF Len(known_patterns) <= capacity THEN known_patterns
    ELSE LET score(i) == ForgetScore(known_patterns[i], current_cycle)
             index == CHOOSE i \in 1 .. Len(known_patterns) :
                          /\ \A j \in 1 .. Len(known_patterns) : score(i) <= score(j)
                          /\ \A j \in 1 .. (i - 1) : score(j) > score(i)
         IN forget_if_needed_scored(RemoveAt(known_patterns, index), capacity, current_cycle)

\* Solver::forget_if_needed: every bank the call can leave.  While the bank
\* is over capacity the pattern with the lowest score is removed; the score
\* is computed from fields of the codec Pattern, so any pattern can be it.
RECURSIVE forget_if_needed(_, _)
forget_if_needed(known_patterns, capacity) ==
    IF Len(known_patterns) <= capacity THEN {known_patterns}
    ELSE UNION {forget_if_needed(RemoveAt(known_patterns, i), capacity) :
                   i \in 1 .. Len(known_patterns)}

\* Solver::evict_weak_dictionary_word: every solver the call can leave.
\* min_by takes a word of least recent_gain in the order of the HashMap,
\* so any such word can be the one; its Dictionary patterns go with it.
evict_weak_dictionary_word(sv) ==
    IF sv.dictionary_words = {} THEN {sv}
    ELSE LET gains == {w.recent_gain : w \in sv.dictionary_words}
             least == CHOOSE g \in gains : \A other \in gains : g <= other
         IN {[sv EXCEPT
                 !.dictionary_words = @ \ {weak},
                 !.known_patterns =
                     SelectSeq(@, LAMBDA pattern :
                                      pattern.operator # <<"Dictionary", weak.word_id>>)] :
             weak \in {w \in sv.dictionary_words : w.recent_gain = least}}

\* Solver::ensure_dictionary_word: every solver the call can leave.
\* dictionary_words holds the entries of the HashMap with their word_id;
\* dictionary_lookup is its inverse on the bytes.
ensure_dictionary_word(sv, word, count, estimated_gain) ==
    IF Len(word) < DICTIONARY_MIN_LEN THEN {sv}
    ELSE IF \E w \in sv.dictionary_words : w.bytes = word
    THEN {[sv EXCEPT !.dictionary_words =
              {IF w.bytes = word
               THEN [w EXCEPT !.frequency = count, !.recent_gain = estimated_gain]
               ELSE w : w \in @}]}
    ELSE UNION
         {IF Cardinality(sv1.dictionary_words) >= DICTIONARY_CAPACITY THEN {sv1}
          ELSE {[sv1 EXCEPT
                    !.next_word_id = @ + 1,
                    !.dictionary_words =
                        @ \cup {[word_id |-> sv1.next_word_id, bytes |-> word,
                                 frequency |-> count, recent_gain |-> estimated_gain]},
                    !.next_pattern_id = @ + 1,
                    !.known_patterns = kept] :
                kept \in forget_if_needed(
                            Append(sv1.known_patterns,
                                   [id |-> sv1.next_pattern_id,
                                    operator |-> <<"Dictionary", sv1.next_word_id>>]),
                            sv1.pattern_bank_capacity)} :
          sv1 \in (IF Cardinality(sv.dictionary_words) >= DICTIONARY_CAPACITY
                   THEN evict_weak_dictionary_word(sv) ELSE {sv})}

\* repack_compressed_data: a slice that holds an OP_DICT byte counts double
HasDict(slice) == \E k \in 1 .. Len(slice) : slice[k] = OP_DICT

\* repack_compressed_data: counts[slice] after the scan of one length
RepackCount(data, slice) ==
    Cardinality({start \in 0 .. (Len(data) - Len(slice)) :
                    Slice(data, start, start + Len(slice)) = slice})
        * (IF HasDict(slice) THEN 2 ELSE 1)

\* repack_compressed_data: the candidates of one length, count >= 2.  When
\* no slice of this length occurs twice only the slices with an OP_DICT
\* byte can reach 2.
RepackCandidates(data, len) ==
    LET starts == 0 .. (Len(data) - len)
        slices == {Slice(data, start, start + len) : start \in starts}
        worth == IF Cardinality(slices) = Cardinality(starts)
                 THEN {slice \in slices : HasDict(slice)}
                 ELSE slices
    IN {[seq |-> slice, count |-> RepackCount(data, slice)] :
           slice \in {x \in worth : RepackCount(data, x) >= 2}}

\* The orders sort_by can leave candidates of one length in: count
\* descending, equal counts in the order of the HashMap
RECURSIVE ByCount(_)
ByCount(candidates) ==
    IF candidates = {} THEN {<<>>}
    ELSE UNION {{<<c>> \o rest : rest \in ByCount(candidates \ {c})} :
                   c \in {x \in candidates : \A y \in candidates : y.count <= x.count}}

\* repack_compressed_data: every possible list of the first needed
\* candidates, longest first, from slices of length len downwards
RECURSIVE TopCandidates(_, _, _)
TopCandidates(data, len, needed) ==
    IF needed = 0 \/ len < RepackMinSlice THEN {<<>>}
    ELSE IF len > Len(data) THEN TopCandidates(data, len - 1, needed)
    ELSE UNION {{SubSeq(order, 1, Min(needed, Len(order))) \o rest :
                    rest \in TopCandidates(data, len - 1,
                                           needed - Min(needed, Len(order)))} :
                   order \in ByCount(RepackCandidates(data, len))}

\* The starts the replacing loop of repack_compressed_data finds from
\* position i on: the leftmost occurrence, then the leftmost one after it
RECURSIVE ReplacedStarts(_, _, _)
ReplacedStarts(data, seq, i) ==
    LET found == {start \in i .. (Len(data) - Len(seq)) :
                     Slice(data, start, start + Len(seq)) = seq}
    IN IF found = {} THEN <<>>
       ELSE LET first == CHOOSE start \in found : \A other \in found : start <= other
            IN <<first>> \o ReplacedStarts(data, seq, first + Len(seq))

\* world.data.splice for the occurrences at starts, the last one first
RECURSIVE SpliceAll(_, _, _, _)
SpliceAll(data, starts, len, new_data) ==
    IF starts = <<>> THEN data
    ELSE LET start == starts[Len(starts)]
         IN SpliceAll(SubSeq(data, 1, start) \o new_data
                          \o SubSeq(data, start + len + 1, Len(data)),
                      SubSeq(starts, 1, Len(starts) - 1), len, new_data)

\* repack_compressed_data: one candidate of a pass.  The word goes to the
\* dictionary and every occurrence becomes a reference to it.
RepackCandidate(sv, data, candidate) ==
    {LET entry == {w \in sv1.dictionary_words : w.bytes = candidate.seq}
         starts == IF entry = {} THEN <<>> ELSE ReplacedStarts(data, candidate.seq, 0)
     IN [solver |-> sv1,
         data |-> IF starts = <<>> THEN data
                  ELSE SpliceAll(data, starts, Len(candidate.seq),
                                 DictRef((CHOOSE w \in entry : TRUE).word_id)),
         applied |-> Len(starts)] :
     sv1 \in ensure_dictionary_word(sv, candidate.seq, candidate.count,
                                    (Len(candidate.seq) - DictRefLen) * (candidate.count - 1))}

\* repack_compressed_data: the candidates of a pass in turn, while the
\* quota of the pass lasts
RECURSIVE RepackPass(_, _, _, _, _, _)
RepackPass(sv, data, candidates, pass_applied, pass_used_quota, pass_quota_budget) ==
    IF candidates = <<>> \/ pass_used_quota >= pass_quota_budget
    THEN {[solver |-> sv, data |-> data, applied |-> pass_applied,
           used |-> pass_used_quota]}
    ELSE UNION {RepackPass(r.solver, r.data, Tail(candidates),
                           pass_applied + r.applied,
                           pass_used_quota + RepackCandidateCost, pass_quota_budget) :
                   r \in RepackCandidate(sv, data, Head(candidates))}

\* repack_compressed_data: the passes
RECURSIVE RepackLoop(_, _, _, _)
RepackLoop(sv, data, total_used_quota, pass_number) ==
    IF total_used_quota >= RepackBudget THEN {[solver |-> sv, data |-> data]}
    ELSE UNION
         {IF candidates = <<>> THEN {[solver |-> sv, data |-> data]}
          ELSE UNION
               {IF r.applied = 0 \/ pass_number + 1 > RepackMaxPasses
                THEN {[solver |-> r.solver, data |-> r.data]}
                ELSE RepackLoop(r.solver, r.data, total_used_quota + r.used,
                                pass_number + 1) :
                r \in RepackPass(sv, data, candidates, 0, 0,
                                 Min(RepackBudget - total_used_quota, RepackPassBudget))} :
          candidates \in TopCandidates(data, RepackMaxSlice, RepackCandidatesPerPass)}

\* Solver::repack_compressed_data: every <<solver, data>> the call can leave
repack_compressed_data(sv, data) ==
    IF Len(data) < RepackMinData THEN {[solver |-> sv, data |-> data]}
    ELSE RepackLoop(sv, data, 0, 1)

\* live: the cycles of the scheduled repack
RepackDue(cycle_count) ==
    IF cycle_count <= 60 THEN cycle_count % 20 = 0
    ELSE IF cycle_count <= 120 THEN cycle_count % 30 = 0
    ELSE cycle_count % 50 = 0

\* live: whether repack_compressed_data runs at the end of this cycle
ShouldRepack(sv, w) ==
    /\ Len(w.data) >= RepackMinLen
    /\ \/ Len(w.data) * 100 > RepackPressure * w.memory_limit
       \/ RepackDue(sv.cycle_count)

\* Keep the elements of a sequence that satisfy keep (Vec::retain)
RECURSIVE Retain(_, _)
Retain(seq, keep) ==
    IF seq = <<>> THEN <<>>
    ELSE (IF Head(seq).id \in keep THEN <<Head(seq)>> ELSE <<>>) \o Retain(Tail(seq), keep)

\* meta_learn: the RunLength patterns of the bank with the given min_len
RunLengthGroup(known_patterns, min_len) ==
    {i \in 1 .. Len(known_patterns) :
        /\ known_patterns[i].operator[1] = "RunLength"
        /\ known_patterns[i].operator[3] = min_len}

\* meta_learn: the number of distinct bytes of a group
UniqueBytes(known_patterns, group) ==
    Cardinality({known_patterns[i].operator[2] : i \in group})

\* Solver::meta_learn: every <<known_patterns, next_pattern_id>> the call can
\* leave.  The RunLength group with at least 4 distinct bytes that has the
\* most distinct bytes (then the most patterns, then the smallest min_len)
\* is generalised; all but 3 of its patterns, the ones with the lowest
\* recent_gain, are removed.
meta_learn(sv) ==
    LET kp == sv.known_patterns
        min_lens == {kp[i].operator[3] : i \in {j \in 1 .. Len(kp) : kp[j].operator[1] = "RunLength"}}
        eligible == {m \in min_lens : UniqueBytes(kp, RunLengthGroup(kp, m)) >= 4}
        Better(a, b) ==
            LET ua == UniqueBytes(kp, RunLengthGroup(kp, a))
                ub == UniqueBytes(kp, RunLengthGroup(kp, b))
                ta == Cardinality(RunLengthGroup(kp, a))
                tb == Cardinality(RunLengthGroup(kp, b))
            IN ua > ub \/ (ua = ub /\ ta > tb) \/ (ua = ub /\ ta = tb /\ a < b)
    IN IF eligible = {}
       THEN {<<p, sv.next_pattern_id>> : p \in forget_if_needed(kp, sv.pattern_bank_capacity)}
       ELSE LET min_len == CHOOSE m \in eligible : \A o \in eligible \ {m} : Better(m, o)
                group == RunLengthGroup(kp, min_len)
                has_general == \E i \in 1 .. Len(kp) :
                                   kp[i].operator = <<"GeneralizedRunLength", min_len>>
                kp1 == IF has_general THEN kp
                       ELSE Append(kp, [id |-> sv.next_pattern_id,
                                        operator |-> <<"GeneralizedRunLength", min_len>>])
                next_id == IF has_general THEN sv.next_pattern_id ELSE sv.next_pattern_id + 1
                remove_sets == IF Cardinality(group) > 3
                               THEN {r \in SUBSET {kp[i].id : i \in group} :
                                        Cardinality(r) = Cardinality(group) - 3}
                               ELSE {{}}
            IN UNION {{<<p, next_id>> :
                          p \in forget_if_needed(
                                    Retain(kp1, {kp1[i].id : i \in 1 .. Len(kp1)} \ r),
                                    sv.pattern_bank_capacity)} :
                      r \in remove_sets}

\* The record of a loop step before any step was made
NoStep ==
    [action |-> "None", outcome |-> "none", before |-> <<>>,
     patch |-> [range |-> [start |-> 0, end |-> 0], new_data |-> <<>>],
     gain |-> 0, quota_cost |-> 0, quota_before |-> 0,
     stats_before |-> StatsNew, patterns_before |-> <<>>]

\* The record of a loop step of Solver::live
StepRecord(sv, w, action, outcome, patch, gain, quota_cost) ==
    [action |-> action, outcome |-> outcome, before |-> w.data, patch |-> patch,
     gain |-> gain, quota_cost |-> quota_cost, quota_before |-> sv.current_quota,
     stats_before |-> sv.stats, patterns_before |-> sv.known_patterns]

\* Solver::handle_explore_patch: every outcome of the call
handle_explore_patch(sv, w, patch) ==
    LET global_patch == clone_with_offset(patch, w.window.start)
        cost_before == calculate_total_cost(w.data)
        original_data == get_data_in_range(w.data, global_patch.range)
        operator == identify_operator(global_patch)
        applied == apply_patch(w.data, global_patch)
        cost_after == calculate_total_cost(applied)
        gain == calculate_gain(cost_before, cost_after)
    IN IF gain < MIN_ACCEPT_GAIN
       THEN {[solver |-> [sv EXCEPT !.stats = record_explore(sv.stats, ExploreCost, 0)],
              world |-> [w EXCEPT !.data = rollback(applied, global_patch, original_data)],
              quota_cost |-> ExploreCost,
              last |-> StepRecord(sv, w, "Explore", "rejected", global_patch, gain, ExploreCost)]}
       ELSE {[solver |-> [sv EXCEPT !.stats = record_explore(sv.stats, ExploreCost, gain),
                                    !.next_pattern_id = @ + 1,
                                    !.known_patterns = kept],
              world |-> [w EXCEPT !.data = applied],
              quota_cost |-> ExploreCost,
              last |-> StepRecord(sv, w, "Explore", "accepted", global_patch, gain, ExploreCost)] :
             kept \in forget_if_needed(
                          Append(sv.known_patterns,
                                 [id |-> sv.next_pattern_id, operator |-> operator]),
                          sv.pattern_bank_capacity)}

\* Solver::live, the Exploit arm: every outcome
ExploitStep(sv, w) ==
    UNION {
        IF found = None
        THEN {[solver |-> [sv EXCEPT !.stats = record_exploit(sv.stats, ExploitCost, 0)],
               world |-> w,
               quota_cost |-> ExploitCost,
               last |-> StepRecord(sv, w, "Exploit", "none", NoStep.patch, 0, ExploitCost)]}
        ELSE LET global_patch == clone_with_offset(found[1][1], w.window.start)
                 cost_before == calculate_total_cost(w.data)
                 original_data == get_data_in_range(w.data, global_patch.range)
                 applied == apply_patch(w.data, global_patch)
                 cost_after == calculate_total_cost(applied)
                 gain == calculate_gain(cost_before, cost_after)
             IN IF gain > 0
                THEN {[solver |-> [sv EXCEPT !.stats = record_exploit(sv.stats, ExploitCost, gain)],
                       world |-> [w EXCEPT !.data = applied],
                       quota_cost |-> ExploitCost,
                       last |-> StepRecord(sv, w, "Exploit", "accepted", global_patch,
                                           gain, ExploitCost)]}
                ELSE {[solver |-> [sv EXCEPT !.stats = record_exploit(sv.stats, ExploitCost, 0)],
                       world |-> [w EXCEPT !.data =
                                    rollback(applied, global_patch, original_data)],
                       quota_cost |-> ExploitCost,
                       last |-> StepRecord(sv, w, "Exploit", "rejected", global_patch,
                                           gain, ExploitCost)]} :
        found \in exploit(sv.known_patterns, sv.dictionary_words, get_window_data(w))}

\* Solver::live, the Explore arm (try_dictionary is false): every outcome
ExploreStep(sv, w) ==
    UNION {
        IF found = None
        THEN {[solver |-> [sv EXCEPT !.stats = record_explore(sv.stats, ExploreCost, 0)],
               world |-> w,
               quota_cost |-> ExploreCost,
               last |-> StepRecord(sv, w, "Explore", "none", NoStep.patch, 0, ExploreCost)]}
        ELSE handle_explore_patch(sv, w, found[1]) :
        found \in explore_patch(sv, w)}

\* Solver::live, the ShiftWindow arm
ShiftWindowStep(sv, w) ==
    LET r == refresh_focus_window(advance_window(sv, w), w)
    IN {[solver |-> [r.solver EXCEPT !.stats = record_seek(r.solver.stats, SeekCost)],
         world |-> r.world,
         quota_cost |-> SeekCost,
         last |-> StepRecord(sv, w, "ShiftWindow", "seek", NoStep.patch, 0, SeekCost)]}

\* The MetaLearn arm with a skipped attempt that costs nothing: the deduction
\* after the arm succeeds and the loop goes on
MetaLearnStep_costless(sv, w) ==
    IF sv.current_quota >= MetaCost
    THEN {[solver |-> [sv EXCEPT !.known_patterns = m[1], !.next_pattern_id = m[2],
                                 !.stats = record_meta(sv.stats, MetaCost, 0)],
           world |-> w,
           quota_cost |-> MetaCost,
           last |-> StepRecord(sv, w, "MetaLearn", "meta", NoStep.patch, 0, MetaCost)] :
          m \in meta_learn(sv)}
    ELSE {[solver |-> sv, world |-> w, quota_cost |-> 0,
           last |-> StepRecord(sv, w, "MetaLearn", "skipped", NoStep.patch, 0, 0)]}

\* Solver::live, the MetaLearn arm: every outcome
MetaLearnStep(sv, w) ==
    IF sv.current_quota >= MetaCost
    THEN {[solver |-> [sv EXCEPT !.known_patterns = m[1], !.next_pattern_id = m[2],
                                 !.stats = record_meta(sv.stats, MetaCost, 0)],
           world |-> w,
           quota_cost |-> MetaCost,
           last |-> StepRecord(sv, w, "MetaLearn", "meta", NoStep.patch, 0, MetaCost)] :
          m \in meta_learn(sv)}
    ELSE {[solver |-> sv, world |-> w, quota_cost |-> MetaCost,
           last |-> StepRecord(sv, w, "MetaLearn", "skipped", NoStep.patch, 0, MetaCost)]}

\* Feeder::new; result is what the last call of feed returned
FeederNew(feed_rate) == [feed_rate |-> feed_rate, cycle |-> 0, result |-> <<"None">>]

\* Feeder::generate_data: every Vec the call can return.  The kind of data
\* changes every 100 feeds: the digits 0..9 repeated, random bytes, or X
\* with one Y.
generate_data(amount, feed_cycle) ==
    LET kind == (feed_cycle \div 100) % 3
    IN IF kind = 0 THEN {[i \in 1 .. amount |-> (i - 1) % 10]}
       ELSE IF kind = 1 THEN [1 .. amount -> 0 .. 255]
       ELSE {[i \in 1 .. amount |-> IF amount > 10 /\ i = 11 THEN 89 ELSE 88]}

\* feed without the test against memory_limit
feed_unchecked(fd, w) ==
    {[feeder |-> [fd EXCEPT !.cycle = @ + 1, !.result = <<"Ok", Len(new_data)>>],
      world |-> [w EXCEPT !.data = @ \o new_data]] :
     new_data \in generate_data(fd.feed_rate, fd.cycle + 1)}

\* Feeder::feed: every <<feeder, world>> the call can leave
feed(fd, w) ==
    {IF Len(w.data) + Len(new_data) > w.memory_limit
     THEN [feeder |-> [fd EXCEPT !.cycle = @ + 1, !.result = <<"Err", "OVERFLOW">>],
           world |-> w]
     ELSE [feeder |-> [fd EXCEPT !.cycle = @ + 1, !.result = <<"Ok", Len(new_data)>>],
           world |-> [w EXCEPT !.data = @ \o new_data]] :
     new_data \in generate_data(fd.feed_rate, fd.cycle + 1)}

\* live: refresh_dictionary runs at the start of this cycle
DictionaryRefreshDue(cycle_count) ==
    IF cycle_count <= 40 THEN cycle_count % 10 = 0 ELSE cycle_count % 20 = 0

\* main: the cycles without change after which the adaptive loop stops
StagnationLimit == 5
\* main: the factor on the base rate when the stream is familiar
SpeedFactor == 5

\* Feeder::new (feeder.rs) on a data directory that holds files, and the
\* variables of main before its adaptive loop
HostNew(feed_rate, max_cycles, files) ==
    [feeder |-> [feed_rate |-> feed_rate, files |-> files, current_file_index |-> 0,
                 current_file_pos |-> 0, current_file |-> FALSE,
                 is_depleted |-> FALSE, total_fed |-> 0],
     base_rate |-> feed_rate, max_cycles |-> max_cycles,
     cycle |-> 0, last_stream_len |-> 0, stagnant_cycles |-> 0,
     state |-> IF max_cycles > 0 THEN "running" ELSE "max_cycles"]

\* Feeder::set_feed_rate
set_feed_rate(fd, rate) == [fd EXCEPT !.feed_rate = Max(rate, 1)]

\* Feeder::open_next_file
open_next_file(fd) ==
    IF fd.current_file_index < Len(fd.files)
    THEN [fd EXCEPT !.current_file = TRUE]
    ELSE [fd EXCEPT !.is_depleted = TRUE, !.current_file = FALSE]

\* Feeder::feed_to_builder: the feeder after the call, the bytes it gave to
\* Builder::tokenize and the number it returns
RECURSIVE feed_to_builder(_)
feed_to_builder(fd) ==
    IF fd.is_depleted THEN [feeder |-> fd, data |-> <<>>, fed |-> 0]
    ELSE LET opened == IF fd.current_file THEN fd ELSE open_next_file(fd)
         IN IF opened.is_depleted THEN [feeder |-> opened, data |-> <<>>, fed |-> 0]
            ELSE LET file == opened.files[opened.current_file_index + 1]
                     bytes_read == Min(opened.feed_rate,
                                       SatSub(Len(file), opened.current_file_pos))
                 IN IF bytes_read = 0
                    THEN feed_to_builder([opened EXCEPT !.current_file = FALSE,
                                                        !.current_file_index = @ + 1,
                                                        !.current_file_pos = 0])
                    ELSE [feeder |-> [opened EXCEPT !.total_fed = @ + bytes_read,
                                                    !.current_file_pos = @ + bytes_read],
                          data |-> SubSeq(file, opened.current_file_pos + 1,
                                          opened.current_file_pos + bytes_read),
                          fed |-> bytes_read]

\* main: the feed rate and do_explore of the three modes of the adaptive
\* loop (familiar stream, unfamiliar stream, in between)
Modes(base_rate) ==
    {[new_rate |-> base_rate * SpeedFactor, do_explore |-> FALSE],
     [new_rate |-> base_rate \div 2, do_explore |-> TRUE],
     [new_rate |-> base_rate, do_explore |-> TRUE]}

(***************************************************************************)
(* State machine: one action per public operation                          *)
(***************************************************************************)
\* Builder::new(pattern_capacity)
New(pattern_capacity) ==
    /\ bank = PatternBankNew(pattern_capacity)
    /\ token_stream = <<>>
    /\ cycle = 0
    /\ fed = <<>>
    /\ ops = 0
    /\ phases = <<>>
    /\ host = HostNew(0, 0, <<>>)
    /\ world = WorldNew(0, <<>>)
    /\ solver = SolverNew(0, 0, 100)
    /\ pc = "idle"
    /\ last = NoStep
    /\ feeder = FeederNew(0)

\* tokenize that puts the new tokens in front of the stream
Tokenize_prepend(data) ==
    /\ token_stream' = [i \in 1 .. Len(data) |-> data[i]] \o token_stream
    /\ fed' = fed \o data
    /\ ops' = ops + 1
    /\ UNCHANGED <<solverVars, host>>
    /\ UNCHANGED <<bank, cycle, phases>>

\* Builder::tokenize(data)
Tokenize(data) ==
    /\ token_stream' = token_stream \o [i \in 1 .. Len(data) |-> literal_id(data[i])]
    /\ fed' = fed \o data
    /\ ops' = ops + 1
    /\ UNCHANGED <<solverVars, host>>
    /\ UNCHANGED <<bank, cycle, phases>>

\* Builder::explore()
Explore ==
    \E top_pairs \in get_top_pairs(compute_pair_stats(token_stream),
                                   PairThreshold, MAX_TOP_PAIRS) :
        LET r == explore(bank, token_stream, cycle, top_pairs)
        IN /\ bank' = r.bank
           /\ ops' = ops + 1
           /\ UNCHANGED <<solverVars, host>>
           /\ UNCHANGED <<token_stream, cycle, fed, phases>>

\* Builder::collapse()
Collapse ==
    LET r == collapse(bank, token_stream, cycle)
    IN /\ bank' = r.bank
       /\ token_stream' = r.token_stream
       /\ ops' = ops + 1
       /\ UNCHANGED <<solverVars, host>>
       /\ UNCHANGED <<cycle, fed, phases>>

\* Builder::forget(force_count)
Forget(force_count) ==
    \E weak_ids \in get_weakest(bank, ToRemove(bank, force_count)) :
        LET r == forget(bank, token_stream, weak_ids)
        IN /\ bank' = r.bank
           /\ token_stream' = r.token_stream
           /\ ops' = ops + 1
           /\ UNCHANGED <<solverVars, host>>
       /\ UNCHANGED <<cycle, fed, phases>>

\* Builder::decay(amount)
Decay(amount) ==
    /\ bank' = decay(bank, amount)
    /\ ops' = ops + 1
    /\ UNCHANGED <<solverVars, host>>
    /\ UNCHANGED <<token_stream, cycle, fed, phases>>

\* Builder::live(): explore, collapse to a fixpoint, forget(0), decay
Live ==
    \E top_pairs \in get_top_pairs(compute_pair_stats(token_stream),
                                   PairThreshold, MAX_TOP_PAIRS) :
        LET c == cycle + 1
            e == explore(bank, token_stream, c, top_pairs)
            k == CollapseAll(e.bank, token_stream, c, 0)
        IN \E weak_ids \in get_weakest(k.bank, ToRemove(k.bank, 0)) :
               LET f == forget(k.bank, k.token_stream, weak_ids)
               IN /\ cycle' = c
                  /\ bank' = decay(f.bank, DEFAULT_DECAY_RATE)
                  /\ token_stream' = f.token_stream
                  /\ ops' = ops + 1
                  /\ UNCHANGED <<solverVars, host>>
                  /\ phases' = <<"explore", "collapse", "forget", "decay">>
                  /\ UNCHANGED fed

\* One pass of the adaptive loop of main (hierarchical mode) that fed data:
\* feed_to_builder, then builder.cycle += 1, forget(0), explore when
\* do_explore, collapse to a fixpoint, decay(0.01).  A pass that feeds
\* nothing leaves the loop before the learning cycle.
HostLearn(data, do_explore) ==
    LET c == cycle + 1
        s == token_stream \o [i \in 1 .. Len(data) |-> literal_id(data[i])]
    IN \E weak_ids \in get_weakest(bank, ToRemove(bank, 0)) :
           LET f == forget(bank, s, weak_ids)
           IN \E top_pairs \in get_top_pairs(compute_pair_stats(f.token_stream),
                                             PairThreshold, MAX_TOP_PAIRS) :
                  LET e == IF do_explore
                           THEN explore(f.bank, f.token_stream, c, top_pairs).bank
                           ELSE f.bank
                      k == CollapseAll(e, f.token_stream, c, 0)
                  IN /\ cycle' = c
                     /\ bank' = decay(k.bank, DEFAULT_DECAY_RATE)
                     /\ token_stream' = k.token_stream
                     /\ fed' = fed \o data
                     /\ ops' = ops + 1
                     /\ UNCHANGED solverVars
                     /\ phases' = <<"forget">>
                                  \o (IF do_explore THEN <<"explore">> ELSE <<>>)
                                  \o <<"collapse", "decay">>

HostCycle(data, do_explore) == HostLearn(data, do_explore) /\ UNCHANGED host

\* One pass of the adaptive loop of main with its Feeder: the mode, the
\* feed, the break when nothing was fed and the feeder is depleted,
\* otherwise the learning cycle, the stagnation count and the two tests
\* that end the loop
MainCycle ==
    /\ host.state = "running"
    /\ \E mode \in Modes(host.base_rate) :
           LET r == feed_to_builder(set_feed_rate(host.feeder, mode.new_rate))
               entered == [host EXCEPT !.cycle = @ + 1, !.feeder = r.feeder]
           IN IF r.fed = 0 /\ r.feeder.is_depleted
              THEN /\ host' = [entered EXCEPT !.state = "depleted"]
                   /\ ops' = ops + 1
                   /\ UNCHANGED <<bank, token_stream, cycle, fed, phases, solverVars>>
              ELSE /\ HostLearn(r.data, mode.do_explore)
                   /\ LET stream_len == Len(token_stream')
                          stagnant_cycles ==
                              IF stream_len = host.last_stream_len /\ r.fed = 0
                              THEN host.stagnant_cycles + 1 ELSE 0
                      IN host' = [entered EXCEPT
                                     !.stagnant_cycles = stagnant_cycles,
                                     !.last_stream_len = stream_len,
                                     !.state =
                                         IF r.feeder.is_depleted
                                            /\ stagnant_cycles >= StagnationLimit
                                         THEN "saturated"
                                         ELSE IF entered.cycle >= host.max_cycles
                                         THEN "max_cycles" ELSE "running"]

\* PatternBank::create_combine(left, right, cycle) called on builder.bank
CreateCombine(left, right, c) ==
    LET r == create_combine(bank, left, right, c)
    IN /\ bank' = r.bank
       /\ ops' = ops + 1
       /\ UNCHANGED <<solverVars, host>>
    /\ UNCHANGED <<token_stream, cycle, fed, phases>>

\* PatternBank::remove(id) called on builder.bank
Remove(id) ==
    LET r == remove(bank, id)
    IN /\ bank' = r.bank
       /\ ops' = ops + 1
       /\ UNCHANGED <<solverVars, host>>
    /\ UNCHANGED <<token_stream, cycle, fed, phases>>

\* Solver::load_or_new(processing_quota, pattern_bank_capacity, 1.0) with
\* the patterns of the pattern file (none: Solver::new), and a World of
\* MemoryLimit bytes loaded with data
SolverInit(processing_quota, pattern_bank_capacity, patterns, data) ==
    /\ world = WorldNew(MemoryLimit, data)
    /\ solver = IF patterns = <<>>
                THEN SolverNew(processing_quota, pattern_bank_capacity, 100)
                ELSE SolverLoad(processing_quota, pattern_bank_capacity, 100, patterns)
    /\ pc = "idle"
    /\ last = NoStep
    /\ feeder = FeederNew(0)
    /\ bank = PatternBankNew(0)
    /\ token_stream = <<>>
    /\ cycle = 0
    /\ fed = <<>>
    /\ ops = 0
    /\ phases = <<>>
    /\ host = HostNew(0, 0, <<>>)

\* Solver::live up to the while loop: reset_cycle, decay_recent_gains (on
\* fields of the codec Pattern), the cycle budget, refresh_focus_window.
\* refresh_dictionary is not part of the model: the cycles it runs in are
\* not taken.
LiveBegin ==
    /\ pc = "idle"
    /\ ~DictionaryRefreshDue(solver.cycle_count + 1)
    /\ LET r == refresh_focus_window(
                    [solver EXCEPT !.stats = reset_cycle(solver.stats),
                                   !.current_quota = solver.processing_quota,
                                   !.cycle_count = @ + 1],
                    world)
       IN /\ solver' = r.solver
          /\ world' = r.world
    /\ pc' = "loop"
    /\ last' = NoStep
    /\ ops' = ops + 1
    /\ UNCHANGED <<builderVars, feeder>>

\* One iteration of the while loop of Solver::live: refresh_focus_window,
\* decide_next_action, the arm of the action, the deduction of quota_cost or
\* the break
LiveStep ==
    /\ pc = "loop"
    /\ solver.current_quota > 0
    /\ LET r == refresh_focus_window(solver, world)
       IN \E action \in decide_next_action(r.solver.stats, r.solver.current_quota,
                                           r.solver.processing_quota) :
              \E step \in (CASE action = "Exploit" -> ExploitStep(r.solver, r.world)
                             [] action = "Explore" -> ExploreStep(r.solver, r.world)
                             [] action = "ShiftWindow" -> ShiftWindowStep(r.solver, r.world)
                             [] action = "MetaLearn" -> MetaLearnStep(r.solver, r.world)) :
                  /\ world' = step.world
                  /\ last' = step.last
                  /\ IF r.solver.current_quota >= step.quota_cost
                     THEN /\ solver' = [step.solver EXCEPT !.current_quota = @ - step.quota_cost]
                          /\ pc' = "loop"
                     ELSE /\ solver' = step.solver
                          /\ pc' = "end"
    /\ ops' = ops + 1
    /\ UNCHANGED <<builderVars, feeder>>

\* Solver::live after the while loop: zero_gain_streak,
\* adjust_window_size_after_cycle, refresh_focus_window,
\* repack_compressed_data when due, update_cost_breakdown.
\* prune_stale_patterns runs only from cycle PruneWarmupCycles on and is
\* not part of the model.
LiveEnd ==
    /\ pc = "end" \/ (pc = "loop" /\ solver.current_quota = 0)
    /\ solver.known_patterns = <<>> \/ solver.cycle_count < PruneWarmupCycles
    /\ LET sv1 == [solver EXCEPT !.zero_gain_streak =
                      IF total_gain(solver.stats) <= 0 THEN @ + 1 ELSE 0]
           r == refresh_focus_window(adjust_window_size_after_cycle(sv1, world), world)
       IN \E packed \in (IF ShouldRepack(r.solver, r.world)
                         THEN repack_compressed_data(r.solver, r.world.data)
                         ELSE {[solver |-> r.solver, data |-> r.world.data]}) :
              LET cost == calculate_cost_breakdown(packed.data)
              IN /\ solver' = [packed.solver EXCEPT !.stats =
                                  update_costs(packed.solver.stats, cost.c_models,
                                               cost.c_residual)]
                 /\ world' = [r.world EXCEPT !.data = packed.data]
    /\ pc' = "idle"
    /\ UNCHANGED last
    /\ ops' = ops + 1
    /\ UNCHANGED <<builderVars, feeder>>

\* Solver::find_any_run_length(min_count) on the whole buffer
FindAnyRunLength(min_count) ==
    /\ pc = "idle"
    /\ last.action = "None"
    /\ LET found == find_any_run_length(world.data, min_count)
       IN last' = [NoStep EXCEPT !.action = "find_any_run_length",
                                 !.outcome = IF found = None THEN "none" ELSE "found",
                                 !.before = world.data,
                                 !.patch = IF found = None THEN NoStep.patch ELSE found[1]]
    /\ ops' = ops + 1
    /\ UNCHANGED <<world, solver, pc, feeder, builderVars>>

\* Solver::find_run_length(target_byte, min_count) on the whole buffer
FindRunLength(target_byte, min_count) ==
    /\ pc = "idle"
    /\ last.action = "None"
    /\ LET found == find_run_length(world.data, target_byte, min_count)
       IN last' = [NoStep EXCEPT !.action = "find_run_length",
                                 !.outcome = IF found = None THEN "none" ELSE "found",
                                 !.before = world.data,
                                 !.patch = IF found = None THEN NoStep.patch ELSE found[1]]
    /\ ops' = ops + 1
    /\ UNCHANGED <<world, solver, pc, feeder, builderVars>>

\* Solver::forget_if_needed on a bank whose patterns carry their statistics
ForgetIfNeeded ==
    /\ pc = "idle"
    /\ last.action = "None"
    /\ solver' = [solver EXCEPT !.known_patterns =
                      forget_if_needed_scored(@, solver.pattern_bank_capacity,
                                              solver.cycle_count)]
    /\ last' = [NoStep EXCEPT !.action = "ForgetIfNeeded",
                              !.patterns_before = solver.known_patterns]
    /\ ops' = ops + 1
    /\ UNCHANGED <<world, pc, feeder, builderVars>>

\* Feeder::feed on the World, between two calls of Solver::live
Feed ==
    /\ pc = "idle"
    /\ \E fw \in feed(feeder, world) :
           /\ feeder' = fw.feeder
           /\ world' = fw.world
    /\ ops' = ops + 1
    /\ UNCHANGED <<solver, pc, last, builderVars>>

\* World::new(MemoryLimit), Feeder::new(feed_rate) and
\* Solver::new(processing_quota, pattern_bank_capacity, 1.0)
FeedInit(feed_rate, processing_quota, pattern_bank_capacity) ==
    /\ world = WorldNew(MemoryLimit, <<>>)
    /\ solver = SolverNew(processing_quota, pattern_bank_capacity, 100)
    /\ pc = "idle"
    /\ last = NoStep
    /\ feeder = FeederNew(feed_rate)
    /\ bank = PatternBankNew(0)
    /\ token_stream = <<>>
    /\ cycle = 0
    /\ fed = <<>>
    /\ ops = 0
    /\ phases = <<>>
    /\ host = HostNew(0, 0, <<>>)

\* The decay amounts the hosts pass (DEFAULT_DECAY_RATE in live, 0.01 in main)
DecayRates == {DEFAULT_DECAY_RATE}

(***************************************************************************)
(* Spec: any run of at most MaxOps public Builder operations               *)
(***************************************************************************)
Init == \E pattern_capacity \in 0 .. MaxCapacity : New(pattern_capacity)

Next ==
    \/ \E data \in Inputs(MaxChunk) :
          ops < MaxOps /\ Len(fed) + Len(data) <= MaxInput /\ Tokenize(data)
    \/ ops < MaxOps /\ Explore
    \/ ops < MaxOps /\ Collapse
    \/ \E force_count \in 0 .. MaxForce : ops < MaxOps /\ Forget(force_count)
    \/ \E amount \in DecayRates : ops < MaxOps /\ Decay(amount)
    \/ ops < MaxOps /\ Live

Spec == Init /\ [][Next]_vars

(***************************************************************************)
(* SpecBank: as Spec, and the host also calls builder.bank.create_combine  *)
(* and builder.bank.remove (both public) with any ids                      *)
(***************************************************************************)
\* The ids given to create_combine and remove: the literals, the first
\* composite ids, and ids never allocated
IdArgs == 0 .. (NumLiterals + MaxBankIds)

NextBank ==
    \/ \E data \in Inputs(MaxChunk) :
          ops < MaxBankOps /\ Len(fed) + Len(data) <= MaxBankInput /\ Tokenize(data)
    \/ ops < MaxBankOps /\ Explore
    \/ ops < MaxBankOps /\ Collapse
    \/ \E force_count \in 0 .. MaxForce : ops < MaxBankOps /\ Forget(force_count)
    \/ \E amount \in DecayRates : ops < MaxBankOps /\ Decay(amount)
    \/ ops < MaxBankOps /\ Live
    \/ \E left \in IdArgs, right \in IdArgs, c \in 0 .. MaxCycleArg :
          ops < MaxBankOps /\ CreateCombine(left, right, c)
    \/ \E id \in IdArgs : ops < MaxBankOps /\ Remove(id)

SpecBank == Init /\ [][NextBank]_vars

(***************************************************************************)
(* SpecLive: Builder::new with a capacity large enough for the unforced     *)
(* forget of live to fire, then only tokenize and live                     *)
(***************************************************************************)
LiveChunks == {<<1, 1, 0, 0, 0, 0, 0>>}

InitLive == \E pattern_capacity \in LiveCapacity .. MaxLiveCapacity : New(pattern_capacity)

NextLive ==
    \/ \E data \in LiveChunks :
          ops < MaxLiveOps /\ Len(fed) + Len(data) <= MaxLiveInput /\ Tokenize(data)
    \/ ops < MaxLiveOps /\ Live

SpecLive == InitLive /\ [][NextLive]_vars

(***************************************************************************)
(* SpecHost: the two hosts of the hierarchical cycle, Builder::live and    *)
(* the adaptive loop of main                                               *)
(***************************************************************************)
NextHost ==
    \/ \E data \in LiveChunks :
          ops < MaxHostOps /\ Len(fed) + Len(data) <= MaxLiveInput /\ Tokenize(data)
    \/ ops < MaxHostOps /\ Live
    \/ \E data \in LiveChunks, do_explore \in BOOLEAN :
          ops < MaxHostOps /\ Len(fed) + Len(data) <= MaxLiveInput
                           /\ HostCycle(data, do_explore)

SpecHost == InitLive /\ [][NextHost]_vars

(***************************************************************************)
(* SpecSolver: codec mode.  Solver::new and a loaded World, then           *)
(* Solver::live again and again, one loop iteration per step               *)
(***************************************************************************)
\* The buffers loaded into the World: a run of 0, a run of 1, a run of 0
Buffers ==
    {[i \in 1 .. (a + b + c) |-> IF i <= a \/ i > a + b THEN 0 ELSE 1] :
        <<a, b, c>> \in (0 .. MaxRun) \X (0 .. MaxGap) \X (0 .. MaxRun)}

\* The contents of the pattern file: no pattern, or one RunLength pattern
LoadedPatterns ==
    {<<>>} \cup {<<[id |-> 0, operator |-> <<"RunLength", byte, min_count>>]>> :
                    <<byte, min_count>> \in Bytes \X (1 .. MaxLoadedRun)}

InitSolver ==
    \E processing_quota \in 1 .. MaxQuota, pattern_bank_capacity \in 0 .. MaxBankCapacity,
       patterns \in LoadedPatterns, data \in Buffers :
        SolverInit(processing_quota, pattern_bank_capacity, patterns, data)

NextSolver ==
    \/ ops < MaxSolverOps /\ LiveBegin
    \/ ops < MaxSolverOps /\ LiveStep
    \/ ops < MaxSolverOps /\ LiveEnd

SpecSolver == InitSolver /\ [][NextSolver]_vars

(***************************************************************************)
(* SpecFloor: Solver::live on the quotas that reach the explore floor,     *)
(* LargeQuota included                                                     *)
(***************************************************************************)
InitFloor ==
    \E processing_quota \in (ExploreFloorQuota .. MaxQuota) \cup {LargeQuota},
       pattern_bank_capacity \in 0 .. MaxBankCapacity,
       patterns \in LoadedPatterns, data \in Buffers :
        SolverInit(processing_quota, pattern_bank_capacity, patterns, data)

NextFloor ==
    \/ ops < MaxFloorOps /\ LiveBegin
    \/ ops < MaxFloorOps /\ LiveStep
    \/ ops < MaxFloorOps /\ LiveEnd

SpecFloor == InitFloor /\ [][NextFloor]_vars

(***************************************************************************)
(* SpecEvict: forget_if_needed on a loaded bank of two patterns, at any   *)
(* cycle                                                                   *)
(***************************************************************************)
\* A pattern of a pattern file: Pattern's statistics as load_or_new reads
\* them (recent_gain in hundredths, usage_count and total_bytes_saved
\* perfect squares)
StoredPatterns(id) ==
    [id : {id}, operator : {<<"RunLength", 0, 1>>},
     recent_gain : {0, 100}, usage_count : {0, 4}, total_bytes_saved : {0, 4},
     last_used_cycle : 0 .. MaxLastUsed, creation_cycle : 0 .. MaxCreation]

InitEvict ==
    \E pattern_bank_capacity \in 0 .. MaxBankCapacity, a \in StoredPatterns(0),
       b \in StoredPatterns(1), current_cycle \in 0 .. MaxForgetCycle :
        /\ world = WorldNew(MemoryLimit, <<>>)
        /\ solver = [SolverLoad(1, pattern_bank_capacity, 100, <<a, b>>)
                         EXCEPT !.cycle_count = current_cycle]
        /\ pc = "idle"
        /\ last = NoStep
        /\ feeder = FeederNew(0)
        /\ bank = PatternBankNew(0)
        /\ token_stream = <<>>
        /\ cycle = 0
        /\ fed = <<>>
        /\ ops = 0
        /\ phases = <<>>
        /\ host = HostNew(0, 0, <<>>)

NextEvict == ForgetIfNeeded

SpecEvict == InitEvict /\ [][NextEvict]_vars

(***************************************************************************)
(* SpecRle: the two run-length finders on buffers that hold one run of     *)
(* zeros between ones; the run is short or around RunCountMax bytes long   *)
(***************************************************************************)
RunLens == (0 .. MaxShortRun) \cup ((RunCountMax - 1) .. MaxLongRun)

RleBuffers ==
    {[i \in 1 .. (a + n + c) |-> IF i > a /\ i <= a + n THEN 0 ELSE 1] :
        a \in 0 .. MaxPad, n \in RunLens, c \in 0 .. MaxPad}

InitRle ==
    \E data \in RleBuffers :
        /\ world = WorldNew(Len(data), data)
        /\ solver = SolverNew(1, 0, 100)
        /\ pc = "idle"
        /\ last = NoStep
        /\ feeder = FeederNew(0)
        /\ bank = PatternBankNew(0)
        /\ token_stream = <<>>
        /\ cycle = 0
        /\ fed = <<>>
        /\ ops = 0
        /\ phases = <<>>
        /\ host = HostNew(0, 0, <<>>)

NextRle ==
    \/ \E min_count \in 1 .. MaxMinCount : FindAnyRunLength(min_count)
    \/ \E target_byte \in Bytes, min_count \in 1 .. MaxMinCount :
           FindRunLength(target_byte, min_count)

SpecRle == InitRle /\ [][NextRle]_vars

(***************************************************************************)
(* SpecMain: the adaptive loop of main on a data directory of up to        *)
(* MaxFiles files                                                          *)
(***************************************************************************)
DataFiles == {<<>>} \cup Inputs(MaxFileLen)

DataDirs == UNION {[1 .. n -> DataFiles] : n \in 0 .. MaxFiles}

InitMain ==
    \E pattern_capacity \in LiveCapacity .. MaxLiveCapacity, files \in DataDirs,
       feed_rate \in 1 .. MaxBaseRate, max_cycles \in 1 .. MaxMainCycles :
        /\ bank = PatternBankNew(pattern_capacity)
        /\ token_stream = <<>>
        /\ cycle = 0
        /\ fed = <<>>
        /\ ops = 0
        /\ phases = <<>>
        /\ host = HostNew(feed_rate, max_cycles, files)
        /\ world = WorldNew(0, <<>>)
        /\ solver = SolverNew(0, 0, 100)
        /\ pc = "idle"
        /\ last = NoStep
        /\ feeder = FeederNew(0)

NextMain == MainCycle

SpecMain == InitMain /\ [][NextMain]_vars

(***************************************************************************)
(* SpecRepack: Solver::live on a World that is nearly full, so that the    *)
(* cycle ends with repack_compressed_data                                  *)
(***************************************************************************)
\* A buffer in which no three bytes occur twice, that starts with an
\* OP_DICT byte and holds no other operator byte
RepackBuffer ==
    [i \in 1 .. RepackInputLen |->
        IF i = 1 THEN OP_DICT
        ELSE ((((i - 1) * (i - 1) * (i - 1) + 2 * (i - 1)) % 509) % 199) + 1]

\* The pattern files of SpecRepack: none, or one with a Dictionary pattern
RepackLoadedPatterns == {<<>>, <<[id |-> 0, operator |-> <<"Dictionary", 0>>]>>}

InitRepack ==
    \E processing_quota \in 1 .. MaxRepackQuota,
       pattern_bank_capacity \in {0, RepackCapacity},
       patterns \in RepackLoadedPatterns :
        /\ world = WorldNew(RepackMemoryLimit, RepackBuffer)
        /\ solver = SolverLoad(processing_quota, pattern_bank_capacity, 100, patterns)
        /\ pc = "idle"
        /\ last = NoStep
        /\ feeder = FeederNew(0)
        /\ bank = PatternBankNew(0)
        /\ token_stream = <<>>
        /\ cycle = 0
        /\ fed = <<>>
        /\ ops = 0
        /\ phases = <<>>
        /\ host = HostNew(0, 0, <<>>)

NextRepack ==
    \/ ops < MaxRepackOps /\ LiveBegin
    \/ ops < MaxRepackOps /\ LiveStep
    \/ ops < MaxRepackOps /\ LiveEnd

SpecRepack == InitRepack /\ [][NextRepack]_vars

(***************************************************************************)
(* SpecFeed: any interleaving of Feeder::feed and Solver::live on a World  *)
(* that starts empty                                                       *)
(***************************************************************************)
InitFeed ==
    \E feed_rate \in 0 .. MaxFeedRate, processing_quota \in 1 .. MaxQuota,
       pattern_bank_capacity \in 0 .. MaxBankCapacity :
        FeedInit(feed_rate, processing_quota, pattern_bank_capacity)

NextFeed ==
    \/ ops < MaxFeedOps /\ Feed
    \/ ops < MaxFeedOps /\ LiveBegin
    \/ ops < MaxFeedOps /\ LiveStep
    \/ ops < MaxFeedOps /\ LiveEnd

SpecFeed == InitFeed /\ [][NextFeed]_vars

(***************************************************************************)
(* SpecNest: PatternBank::new(NestCapacity), then create_combine called    *)
(* again and again with the pattern created last as the left child         *)
(***************************************************************************)
InitNest == New(NestCapacity)

NextNest ==
    \E left \in {bank.next_id - 1}, right \in {literal_id(0)} :
        ops < MaxNestOps /\ CreateCombine(left, right, 0)

SpecNest == InitNest /\ [][NextNest]_vars

(***************************************************************************)
(* SpecTop: Explore on streams with more frequent pairs than MAX_TOP_PAIRS. *)
(* The builder has tokenized, created Combine(0,0) = 2 and Combine(1,1) = 3 *)
(* and collapsed, so its stream runs over the tokens 0..3 and holds neither *)
(* 0 0 nor 1 1; in TopStream eleven pairs occur twice or more often, and   *)
(* the host has tokenized all of it or all but the last MaxTopDrop tokens  *)
(***************************************************************************)
MaxTopCapacity == 13
MaxTopOps == 2
MaxTopDrop == 3

TopStream ==
    <<1, 3, 2, 2, 1, 3, 3, 2, 3, 3, 2, 1, 3, 0, 3, 0, 2, 0, 3, 0, 3, 0, 3, 0,
      3, 2, 1, 0, 1, 3, 1, 3, 0, 2, 2, 3, 0, 2, 2, 3, 0, 3, 0, 3, 3, 3, 1, 3,
      0, 3, 2, 1, 3, 2, 1, 0, 2, 3, 3, 2, 1, 3, 2, 3, 0, 3, 2, 3, 2, 1, 2>>

\* The bank after explore created the two composites and collapse used them
\* until their strength saturated
TopBank(pattern_capacity) ==
    LET b1 == create_combine(PatternBankNew(pattern_capacity),
                             literal_id(0), literal_id(0), 0).bank
        b2 == create_combine(b1, literal_id(1), literal_id(1), 0).bank
    IN [b2 EXCEPT !.patterns =
           [id \in DOMAIN b2.patterns |->
               IF is_literal(b2.patterns[id]) THEN b2.patterns[id]
               ELSE strengthen(b2.patterns[id], StrengthMax, 0)]]

InitTop ==
    \E pattern_capacity \in 2 .. MaxTopCapacity,
       n \in (Len(TopStream) - MaxTopDrop) .. Len(TopStream) :
        /\ bank = TopBank(pattern_capacity)
        /\ token_stream = SubSeq(TopStream, 1, n)
        /\ cycle = 0
        /\ fed = DecodeSeq(TopBank(pattern_capacity), SubSeq(TopStream, 1, n))
        /\ ops = 0
        /\ phases = <<>>
        /\ host = HostNew(0, 0, <<>>)
        /\ world = WorldNew(0, <<>>)
        /\ solver = SolverNew(0, 0, 100)
        /\ pc = "idle"
        /\ last = NoStep
        /\ feeder = FeederNew(0)

NextTop ==
    \/ \E data \in Inputs(1) : ops < MaxTopOps /\ Tokenize(data)
    \/ ops < MaxTopOps /\ Explore

SpecTop == InitTop /\ [][NextTop]_vars

(***************************************************************************)
(* SpecStrength: the operations of Spec on a builder whose two composites   *)
(* Combine(0,0) and Combine(1,1) have been decayed or strengthened before:  *)
(* each starts at 0.5, one decay short of 0.0 (WeakStart) or one           *)
(* substitution short of 1.0 (StrongStart)                                  *)
(***************************************************************************)
MaxStrengthOps == 4
WeakStart == 1
StrongStart == 95

StartStrengths == {WeakStart, CombineStrength, StrongStart}

StrengthBank(pattern_capacity, s1, s2) ==
    LET b1 == create_combine(PatternBankNew(pattern_capacity),
                             literal_id(0), literal_id(0), 0).bank
        b2 == create_combine(b1, literal_id(1), literal_id(1), 0).bank
    IN [b2 EXCEPT !.patterns[b1.next_id - 1].strength = s1,
                  !.patterns[b2.next_id - 1].strength = s2]

InitStrength ==
    \E pattern_capacity \in 2 .. MaxCapacity, s1 \in StartStrengths,
       s2 \in StartStrengths :
        /\ bank = StrengthBank(pattern_capacity, s1, s2)
        /\ token_stream = <<>>
        /\ cycle = 0
        /\ fed = <<>>
        /\ ops = 0
        /\ phases = <<>>
        /\ host = HostNew(0, 0, <<>>)
        /\ world = WorldNew(0, <<>>)
        /\ solver = SolverNew(0, 0, 100)
        /\ pc = "idle"
        /\ last = NoStep
        /\ feeder = FeederNew(0)

NextStrength ==
    \/ \E data \in Inputs(MaxChunk) :
          ops < MaxStrengthOps /\ Len(fed) + Len(data) <= MaxInput /\ Tokenize(data)
    \/ ops < MaxStrengthOps /\ Explore
    \/ ops < MaxStrengthOps /\ Collapse
    \/ \E force_count \in 0 .. MaxForce : ops < MaxStrengthOps /\ Forget(force_count)
    \/ \E amount \in DecayRates : ops < MaxStrengthOps /\ Decay(amount)
    \/ ops < MaxStrengthOps /\ Live

SpecStrength == InitStrength /\ [][NextStrength]_vars

(***************************************************************************)
(* SpecFix: Builder::live taken one statement at a time, so that every     *)
(* pass of its repeat-collapse loop is a step: pc is "collapse" while the   *)
(* loop runs and "forget" once a pass has returned 0                        *)
(***************************************************************************)
MaxFixOps == 6
MaxFixInput == 12

FixChunks == {<<0, 0, 0, 0>>, <<1>>}

\* live: self.cycle += 1 and explore
LiveExplore ==
    /\ pc = "idle"
    /\ \E top_pairs \in get_top_pairs(compute_pair_stats(token_stream),
                                      PairThreshold, MAX_TOP_PAIRS) :
          bank' = explore(bank, token_stream, cycle + 1, top_pairs).bank
    /\ cycle' = cycle + 1
    /\ ops' = ops + 1
    /\ phases' = <<"explore">>
    /\ pc' = "collapse"
    /\ UNCHANGED <<token_stream, fed, host, world, solver, last, feeder>>

\* live: one iteration of loop { collapsed = collapse(); if 0 break }
LiveCollapse ==
    /\ pc = "collapse"
    /\ LET r == collapse(bank, token_stream, cycle)
       IN /\ bank' = r.bank
          /\ token_stream' = r.token_stream
          /\ pc' = IF r.collapsed = 0 THEN "forget" ELSE "collapse"
    /\ phases' = IF phases[Len(phases)] = "collapse" THEN phases
                 ELSE Append(phases, "collapse")
    /\ UNCHANGED <<cycle, ops, fed, host, world, solver, last, feeder>>

\* live: forget(0) and decay(DEFAULT_DECAY_RATE)
LiveForgetDecay ==
    /\ pc = "forget"
    /\ \E weak_ids \in get_weakest(bank, ToRemove(bank, 0)) :
          LET f == forget(bank, token_stream, weak_ids)
          IN /\ bank' = decay(f.bank, DEFAULT_DECAY_RATE)
             /\ token_stream' = f.token_stream
    /\ phases' = phases \o <<"forget", "decay">>
    /\ pc' = "idle"
    /\ UNCHANGED <<cycle, ops, fed, host, world, solver, last, feeder>>

InitFix == \E pattern_capacity \in 2 .. MaxCapacity : New(pattern_capacity)

NextFix ==
    \/ \E data \in FixChunks :
          /\ pc = "idle" /\ ops < MaxFixOps
          /\ Len(fed) + Len(data) <= MaxFixInput
          /\ Tokenize(data)
    \/ ops < MaxFixOps /\ LiveExplore
    \/ LiveCollapse
    \/ LiveForgetDecay

\* The statements of live follow one another: a running loop takes its next
\* pass
SpecFix == InitFix /\ [][NextFix]_vars /\ WF_vars(LiveCollapse)

(***************************************************************************)
(* SpecCost: the Evaluator on every buffer of at most MaxCostLen bytes over *)
(* the five opcodes, a plain byte that is also a key length (1) and a plain *)
(* byte that is the key length 0, before and after one World::apply_patch   *)
(***************************************************************************)
MaxCostLen == 5

CostBytes == {0, 1, OP_RLE, OP_LZ, OP_DELTA, OP_XOR, OP_DICT}

CostBuffers == UNION {[1 .. n -> CostBytes] : n \in 0 .. MaxCostLen}

\* The replacements of the patches: nothing or an operator
CostPatchData == {<<>>, <<OP_RLE, 1, 1>>}

\* World::apply_patch(patch) with the cost measured before and after it, as
\* Solver::live measures every patch it applies
ApplyPatch(patch) ==
    /\ pc = "idle"
    /\ last.action = "None"
    /\ LET cost_before == calculate_total_cost(world.data)
           applied == apply_patch(world.data, patch)
           cost_after == calculate_total_cost(applied)
       IN /\ world' = [world EXCEPT !.data = applied]
          /\ last' = [NoStep EXCEPT !.action = "apply_patch",
                                    !.outcome = "applied",
                                    !.before = world.data,
                                    !.patch = patch,
                                    !.gain = calculate_gain(cost_before, cost_after)]
    /\ ops' = ops + 1
    /\ UNCHANGED <<solver, pc, feeder, builderVars>>

InitCost ==
    \E data \in CostBuffers :
        /\ world = WorldNew(Len(data) + MaxCostLen, data)
        /\ solver = SolverNew(1, 0, 100)
        /\ pc = "idle"
        /\ last = NoStep
        /\ feeder = FeederNew(0)
        /\ bank = PatternBankNew(0)
        /\ token_stream = <<>>
        /\ cycle = 0
        /\ fed = <<>>
        /\ ops = 0
        /\ phases = <<>>
        /\ host = HostNew(0, 0, <<>>)

NextCost ==
    \E start \in 0 .. Len(world.data), end \in 0 .. Len(world.data),
       new_data \in CostPatchData :
        /\ start <= end
        /\ ApplyPatch([range |-> [start |-> start, end |-> end],
                       new_data |-> new_data])

SpecCost == InitCost /\ [][NextCost]_vars

(***************************************************************************)
(* SpecDict: Solver::live on a Solver whose dictionary is one word short   *)
(* of DICTIONARY_CAPACITY after earlier cycles, and a buffer of             *)
(* RepackInputLen bytes under memory pressure that starts with a reference *)
(* to one of the words, written by an earlier repack                       *)
(***************************************************************************)
MaxDictRef == 7
WordFrequency == 51

\* The entry refresh_dictionary stores for a word of 4 bytes seen
\* WordFrequency times: estimated_gain = (4 - 3) * (count - 1)
StoredWord(word_id) ==
    [word_id |-> word_id,
     bytes |-> <<200 + (word_id % 8), 200 + ((word_id \div 8) % 8),
                 200 + (word_id \div 64), 200>>,
     frequency |-> WordFrequency,
     recent_gain |-> (4 - DictRefLen) * (WordFrequency - 1)]

\* RepackBuffer with the reference to the word word_id as its first bytes
DictBuffer(word_id) ==
    [i \in 1 .. RepackInputLen |->
        IF i <= DictRefLen THEN DictRef(word_id)[i] ELSE RepackBuffer[i]]

InitDict ==
    \E processing_quota \in 1 .. MaxRepackQuota, word_id \in 0 .. MaxDictRef :
        /\ world = WorldNew(RepackMemoryLimit, DictBuffer(word_id))
        /\ solver = [SolverNew(processing_quota, 0, 100) EXCEPT
                        !.dictionary_words =
                            {StoredWord(id) : id \in 0 .. (DICTIONARY_CAPACITY - 2)},
                        !.next_word_id = DICTIONARY_CAPACITY - 1]
        /\ pc = "idle"
        /\ last = NoStep
        /\ feeder = FeederNew(0)
        /\ bank = PatternBankNew(0)
        /\ token_stream = <<>>
        /\ cycle = 0
        /\ fed = <<>>
        /\ ops = 0
        /\ phases = <<>>
        /\ host = HostNew(0, 0, <<>>)

NextDict ==
    \/ ops < MaxRepackOps /\ LiveBegin
    \/ ops < MaxRepackOps /\ LiveStep
    \/ ops < MaxRepackOps /\ LiveEnd

SpecDict == InitDict /\ [][NextDict]_vars

(***************************************************************************)
(* SpecLoop: one call of Solver::live followed to its end, one loop         *)
(* iteration per step.  The loop is sequential code: an iteration that can  *)
(* run does run                                                             *)
(***************************************************************************)
MaxLoopCycles == 1

\* The buffers loaded into the World: nothing, or a run of 0
LoopBuffers == {[i \in 1 .. n |-> 0] : n \in {0, MaxRun}}

\* A small processing_quota on every buffer, and on the empty buffer also
\* one that pays for MetaLearn
InitLoop ==
    \E pattern_bank_capacity \in 0 .. MaxBankCapacity :
        \/ \E processing_quota \in 1 .. MaxQuota, data \in LoopBuffers :
               SolverInit(processing_quota, pattern_bank_capacity, <<>>, data)
        \/ SolverInit(LargeQuota, pattern_bank_capacity, <<>>, <<>>)

NextLoop ==
    \/ solver.cycle_count < MaxLoopCycles /\ LiveBegin
    \/ LiveStep
    \/ LiveEnd

\* The while condition holds: the loop takes its next iteration
LoopRuns == pc = "loop" /\ solver.current_quota > 0

\* From a state where the loop runs NextLoop takes the steps of LiveStep and
\* no other, and each adds 1 to ops: the condition is weak fairness of
\* LiveStep, written on ops so that it is evaluated without enumerating the
\* arms of the iteration
SpecLoop == InitLoop /\ [][NextLoop]_vars /\ WF_ops(LoopRuns /\ ops' = ops + 1)

(***************************************************************************)
(* Properties                                                              *)
(***************************************************************************)
\* Steps of the single operations, whatever their arguments
ForgetStep == \E force_count \in 0 .. MaxForce : Forget(force_count)

\* The ids of the stream that are not in the bank
Dangling == {token_stream[i] : i \in 1 .. Len(token_stream)} \ DOMAIN bank.patterns

\* The Combine patterns of the bank with a child that is not in the bank
Orphans(b) ==
    {id \in Combines(b) : b.patterns[id].op[2] \notin DOMAIN b.patterns
                          \/ b.patterns[id].op[3] \notin DOMAIN b.patterns}

\* Is Combine(left, right) a pattern of the bank?
PairInBank(b, left, right) ==
    \E id \in DOMAIN b.patterns : b.patterns[id].op = <<"Combine", left, right>>

\* PatternBank::new(capacity): the capacity the bank was created with
CreatedCapacity(b) == b.capacity - NumLiterals

\* C1: after any tokenize calls and live() cycles, decode_stream() is the
\* concatenation of all bytes passed to tokenize
C1_RoundTrip == decode_stream = fed

\* C2: forget(k) leaves decode_stream() unchanged, for every k >= 0
C2_ForgetPreservesBytes == [][ForgetStep => decode_stream' = decode_stream]_vars

\* C3: after any forget call every id of token_stream is in the bank
C3_NoDanglingTokens == [][ForgetStep => Dangling' = {}]_vars

\* C4: both children of every Combine pattern of the bank are in the bank
C4_LiveChildren == Orphans(bank) = {}

\* C5: the bank never holds more composites than the capacity it was
\* created with
C5_CapacityBound == combine_count(bank) <= CreatedCapacity(bank)

\* C6: when Combine(l, r) is in the bank, create_combine(l, r, c) returns its
\* id and changes nothing, for every c, also when the bank is full
C6_IdempotentCreate ==
    \A left \in IdArgs, right \in IdArgs, c \in 0 .. MaxCycleArg :
        PairInBank(bank, left, right) =>
            LET r == create_combine(bank, left, right, c)
            IN /\ r.bank = bank
               /\ Len(r.ret) = 1
               /\ r.ret[1] \in DOMAIN bank.patterns
               /\ bank.patterns[r.ret[1]].op = <<"Combine", left, right>>

\* C6 witness: a full bank that holds a pair
C6_Witness ==
    /\ BankFull(bank)
    /\ \E left \in IdArgs, right \in IdArgs : PairInBank(bank, left, right)

\* C7: every literal i stays in the bank with op = Literal(i), complexity 0
\* and strength 1.0 under the Builder's operations
C7_LiteralsImmutable ==
    \A i \in Bytes :
        /\ i \in DOMAIN bank.patterns
        /\ bank.patterns[i].op = <<"Literal", i>>
        /\ bank.patterns[i].complexity = 0
        /\ bank.patterns[i].strength = LiteralStrength

\* C7 witness: a live() cycle has decayed a composite and a forget has
\* removed one
C7_Witness ==
    /\ cycle > 0
    /\ \E id \in Combines(bank) : bank.patterns[id].strength < CombineStrength
    /\ bank.next_id - NumLiterals > combine_count(bank)

\* C8: remove(id) with a literal id or an id not in the bank returns None and
\* leaves the bank unchanged
C8_RemoveRejects ==
    [][\A id \in IdArgs :
          ((id \in Bytes \/ id \notin DOMAIN bank.patterns) /\ Remove(id))
              => (bank' = bank /\ remove(bank, id).ret = None)]_vars

\* C9: when the bank holds as many composites as its capacity and
\* Combine(l, r) is not in it, create_combine(l, r, c) returns None and
\* changes nothing
C9_ExhaustionIsNone ==
    \A left \in IdArgs, right \in IdArgs, c \in 0 .. MaxCycleArg :
        (combine_count(bank) >= CreatedCapacity(bank) /\ ~PairInBank(bank, left, right))
            => create_combine(bank, left, right, c) = [bank |-> bank, ret |-> None]

\* C10: every id in the bank is below next_id, next_id never decreases, and
\* a pattern that enters the bank gets an id at or above the old next_id,
\* so no id is ever reused
C10_MonotoneIds ==
    /\ [](\A id \in DOMAIN bank.patterns : id < bank.next_id)
    /\ [][/\ bank.next_id <= bank'.next_id
          /\ \A id \in DOMAIN bank'.patterns :
                \/ id \in DOMAIN bank.patterns
                \/ (bank.next_id <= id /\ id < bank'.next_id)]_vars

\* C10 witness: a bank of capacity 1 with all its literals whose only
\* composite has the second composite id: it was created after the first
\* was removed
C10_Witness ==
    /\ CreatedCapacity(bank) = 1
    /\ Bytes \subseteq DOMAIN bank.patterns
    /\ Combines(bank) = {NumLiterals + 1}

\* C11: each child id of a Combine pattern is strictly smaller than the
\* pattern's id, so no pattern is reachable from itself through left/right
\* links and decode and pattern_length terminate
C11_Acyclic ==
    \A id \in Combines(bank) :
        bank.patterns[id].op[2] < id /\ bank.patterns[id].op[3] < id

\* C12: the complexity of every Combine(l, r) pattern of the bank is strictly
\* greater than the complexity of l and of r, at every nesting depth
C12_ComplexityMonotone ==
    \A id \in Combines(bank) :
        /\ bank.patterns[id].complexity > ChildComplexity(bank, bank.patterns[id].op[2])
        /\ bank.patterns[id].complexity > ChildComplexity(bank, bank.patterns[id].op[3])

\* C13: forget(0) removes patterns exactly when the composite count exceeds
\* 80% of the capacity the Builder was created with, and then it removes
\* 10% of the composites
C13_ForgetTrigger ==
    ToRemove(bank, 0) =
        IF combine_count(bank) * 100 > CreatedCapacity(bank) * FORGET_CAPACITY_THRESHOLD
        THEN (combine_count(bank) * FORGET_REMOVAL_PERCENTAGE) \div 100
        ELSE 0

\* The place of a phase in the order explore, collapse, forget, decay
PhaseRank(phase) ==
    CASE phase = "explore" -> 1
      [] phase = "collapse" -> 2
      [] phase = "forget" -> 3
      [] phase = "decay" -> 4

\* C14: the phases of every hierarchical cycle, in live() and in the loop of
\* main, run in the order explore, collapse, forget, decay: no forget runs
\* before the cycle's explore or collapse
C14_CycleOrder ==
    \A i \in 1 .. Len(phases), j \in 1 .. Len(phases) :
        i < j => PhaseRank(phases[i]) < PhaseRank(phases[j])

\* C15: one collapse() pass leaves decode_stream() unchanged, and the new
\* stream length is the old length minus the returned substitution count
C15_CollapsePreserves ==
    [][Collapse =>
          /\ decode_stream' = decode_stream
          /\ Len(token_stream') =
                 Len(token_stream) - collapse(bank, token_stream, cycle).collapsed
          /\ collapse(bank, token_stream, cycle).collapsed >= 0]_vars

\* C15 witness: before any cycle the stream holds a composite: a collapse()
\* pass has substituted a pair
C15_Witness ==
    /\ cycle = 0
    /\ \E i \in 1 .. Len(token_stream) : token_stream[i] \in Combines(bank)

\* C16: decay(rate) multiplies the strength of every composite by (1 - rate)
\* and leaves the strength of every literal unchanged (strengths in
\* hundredths, rate in hundredths)
C16_DecayMultiplicative ==
    [][\A amount \in DecayRates :
          Decay(amount) =>
              /\ DOMAIN bank'.patterns = DOMAIN bank.patterns
              /\ \A id \in DOMAIN bank.patterns :
                    IF is_literal(bank.patterns[id])
                    THEN bank'.patterns[id].strength = bank.patterns[id].strength
                    ELSE 100 * bank'.patterns[id].strength =
                             bank.patterns[id].strength * (100 - amount)]_vars

\* C17: a fresh bank holds exactly the literals, with literal_id(b) = b and
\* decode(b) = [b] for every byte b; tokenize(data) appends literal_id of
\* each byte of data, in order, to token_stream and changes neither the
\* tokens already there nor the bank
C17_TokenizeAppends ==
    /\ [](ops = 0 =>
            /\ DOMAIN bank.patterns = Bytes
            /\ \A byte \in Bytes :
                  /\ literal_id(byte) = byte
                  /\ is_literal(bank.patterns[literal_id(byte)])
                  /\ decode(bank, literal_id(byte)) = <<byte>>)
    /\ [][\A data \in Inputs(MaxChunk) :
             Tokenize(data) =>
                 /\ Len(token_stream') = Len(token_stream) + Len(data)
                 /\ \A i \in 1 .. Len(token_stream) : token_stream'[i] = token_stream[i]
                 /\ \A i \in 1 .. Len(data) :
                       token_stream'[Len(token_stream) + i] = literal_id(data[i])
                 /\ bank' = bank]_vars

\* C17 witness: the stream holds a strong composite Combine(l, r) followed
\* by the literals l, r: they were tokenized after the collapse that put the
\* composite there
C17_Witness ==
    \E i \in 1 .. (Len(token_stream) - 2) :
        /\ token_stream[i] \in Combines(bank)
        /\ bank.patterns[token_stream[i]].strength >= TruthThreshold
        /\ token_stream[i + 1] \in Bytes
        /\ token_stream[i + 2] \in Bytes
        /\ bank.patterns[token_stream[i]].op =
               <<"Combine", token_stream[i + 1], token_stream[i + 2]>>


\* The patches the round trip of C18 is tried on: every range inside the
\* buffer, every replacement of at most MaxPatchLen bytes
PatchesInside(data) ==
    {[range |-> [start |-> start, end |-> end], new_data |-> new_data] :
        <<start, end, new_data>> \in
            {<<a, b, d>> \in (0 .. Len(data)) \X (0 .. Len(data))
                \X ({<<>>} \cup Inputs(MaxPatchLen)) :
                a <= b}}

\* C18: for any buffer and any patch whose range lies inside it, apply_patch
\* followed by rollback with the saved original bytes restores the buffer
\* exactly; and after every rejected Exploit or Explore attempt of
\* Solver::live the buffer equals its contents before the attempt.
C18_RollbackFidelity ==
    /\ ops = 0 =>
        \A patch \in PatchesInside(world.data) :
            rollback(apply_patch(world.data, patch), patch,
                     get_data_in_range(world.data, patch.range)) = world.data
    /\ last.outcome = "rejected" => world.data = last.before

C18_Witness ==
    /\ last.outcome = "rejected"
    /\ last.action = "Explore"
    /\ Len(last.patch.new_data) # last.patch.range.end - last.patch.range.start
    /\ last.before # <<>>

\* C19: every patch Solver::live leaves applied reduced calculate_total_cost
\* by at least MIN_ACCEPT_GAIN when it came from Explore and by more than 0
\* when it came from Exploit; a rejected patch adds no pattern to the bank
\* and is recorded in Stats with its quota cost and zero bytes saved.
C19_CostMonotone ==
    /\ (last.outcome = "accepted" /\ last.action = "Explore") =>
            calculate_total_cost(last.before) - calculate_total_cost(world.data)
                >= MIN_ACCEPT_GAIN
    /\ (last.outcome = "accepted" /\ last.action = "Exploit") =>
            calculate_total_cost(last.before) - calculate_total_cost(world.data) > 0
    /\ (last.outcome = "rejected" /\ pc # "idle") =>
            /\ solver.known_patterns = last.patterns_before
            /\ solver.stats =
                   IF last.action = "Explore"
                   THEN record_explore(last.stats_before, ExploreCost, 0)
                   ELSE record_exploit(last.stats_before, ExploitCost, 0)

C19_Witness ==
    /\ last.outcome = "accepted"
    /\ last.action = "Exploit"
    /\ world.data = apply_patch(last.before, last.patch)
    /\ \E i \in 1 .. Len(last.patterns_before) :
           last.patterns_before[i].operator[1] = "RunLength"

\* C20: at the end of every Solver::live cycle, Stats.total_quota_spent()
\* equals the quota deducted from the cycle budget: processing_quota minus
\* the quota remaining when the loop exits.
C20_QuotaClosed ==
    (pc = "idle" /\ solver.cycle_count > 0) =>
        total_quota_spent(solver.stats) = solver.processing_quota - solver.current_quota


\* C21: in Solver::live an action whose quota cost exceeds the remaining
\* quota is aborted: it does not modify the buffer, adds no pattern, records
\* nothing in Stats, and the loop then ends; for Exploit, Explore,
\* ShiftWindow and MetaLearn alike.
C21_NoActionWithoutQuota ==
    (pc \in {"loop", "end"} /\ last.action # "None"
        /\ last.quota_cost > last.quota_before) =>
        /\ world.data = last.before
        /\ solver.known_patterns = last.patterns_before
        /\ solver.stats = last.stats_before
        /\ pc = "end"


\* C22: in every Solver::live cycle with processing_quota >= 10,
\* decide_next_action returns Explore on every step until
\* quota_spent_explore reaches ceil(0.1 * processing_quota), so at cycle end
\* at least 10% of the cycle quota has been spent on Explore.
C22_ExploreFloor ==
    solver.processing_quota >= ExploreFloorQuota =>
        /\ (pc \in {"loop", "end"} /\ last.action # "None"
              /\ last.stats_before.quota_spent_explore
                     < (solver.processing_quota + 9) \div 10) =>
                last.action = "Explore"
        /\ (pc = "idle" /\ solver.cycle_count > 0) =>
                solver.stats.quota_spent_explore * 10 >= solver.processing_quota

C22_Witness ==
    /\ pc = "idle"
    /\ solver.cycle_count > 0
    /\ solver.processing_quota = LargeQuota
    /\ solver.stats.quota_spent_explore = 2 * ExploreCost
    /\ solver.stats.quota_spent_meta = MetaCost


\* A gain_per_quota field equals bytes_saved / quota_spent, or 0 when
\* quota_spent is 0
GainPerQuotaIs(gain_per_quota, bytes_saved, quota_spent) ==
    IF quota_spent > 0
    THEN gain_per_quota[1] * quota_spent = bytes_saved * gain_per_quota[2]
    ELSE gain_per_quota[1] = 0

\* C23: in every Stats state reachable by reset_cycle and record_exploit /
\* record_explore / record_meta, for each class A of exploit, explore, meta,
\* gain_per_quota[A] equals bytes_saved[A] / quota_spent[A] when
\* quota_spent[A] > 0 and 0 when quota_spent[A] = 0, in particular right
\* after reset_cycle at the start of a new cycle.
C23_GainPerQuota ==
    /\ GainPerQuotaIs(solver.stats.gain_per_quota_exploit,
                      solver.stats.bytes_saved_exploit, solver.stats.quota_spent_exploit)
    /\ GainPerQuotaIs(solver.stats.gain_per_quota_explore,
                      solver.stats.bytes_saved_explore, solver.stats.quota_spent_explore)
    /\ GainPerQuotaIs(solver.stats.gain_per_quota_meta,
                      solver.stats.bytes_saved_meta, solver.stats.quota_spent_meta)


\* C25: Feeder::feed returns an OVERFLOW error and leaves world.data
\* unchanged whenever appending would exceed memory_limit, and over any
\* interleaving of feed and Solver::live calls
\* world.data.len() <= world.memory_limit holds in every state.
C25_MemoryLimit ==
    /\ [](Len(world.data) <= world.memory_limit)
    /\ [][Feed =>
            IF Len(world.data) + feeder.feed_rate > world.memory_limit
            THEN /\ feeder'.result = <<"Err", "OVERFLOW">>
                 /\ world' = world
            ELSE /\ feeder'.result = <<"Ok", feeder.feed_rate>>
                 /\ Len(world'.data) = Len(world.data) + feeder.feed_rate
                 /\ SubSeq(world'.data, 1, Len(world.data)) = world.data]_vars

C25_Witness ==
    /\ feeder.result = <<"Err", "OVERFLOW">>
    /\ feeder.feed_rate > 0
    /\ feeder.feed_rate <= world.memory_limit
    /\ solver.cycle_count > 0
    /\ Len(world.data) > 0


\* C26: for a Solver built by Solver::new or load_or_new,
\* known_patterns.len() <= pattern_bank_capacity holds at the end of every
\* live() cycle, and after every step that added a pattern (accepted
\* explore, meta_learn) the bank is within capacity.
C26_BankBound ==
    /\ (pc = "idle" /\ solver.cycle_count > 0) =>
           Len(solver.known_patterns) <= solver.pattern_bank_capacity
    /\ (pc \in {"loop", "end"}
          /\ \/ last.action = "Explore" /\ last.outcome = "accepted"
             \/ last.action = "MetaLearn" /\ last.outcome = "meta") =>
           Len(solver.known_patterns) <= solver.pattern_bank_capacity


\* C30: when forget_if_needed must evict and two patterns have equal
\* recent_gain, usage_count and total_bytes_saved, the one with more idle
\* cycles (current cycle minus last_used_cycle) is removed before the
\* other: the less idle one is never removed while the more idle one stays.
C30_EvictionPrefersIdle ==
    last.action = "ForgetIfNeeded" =>
        \A i, j \in 1 .. Len(last.patterns_before) :
            LET a == last.patterns_before[i]
                b == last.patterns_before[j]
                kept(p) == \E k \in 1 .. Len(solver.known_patterns) :
                               solver.known_patterns[k] = p
            IN (/\ a.recent_gain = b.recent_gain
                /\ a.usage_count = b.usage_count
                /\ a.total_bytes_saved = b.total_bytes_saved
                /\ SatSub(solver.cycle_count, a.last_used_cycle)
                     > SatSub(solver.cycle_count, b.last_used_cycle))
               => ~(kept(a) /\ ~kept(b))


\* C29: every patch produced by find_any_run_length or find_run_length has
\* new_data = [OP_RLE, byte, count] where count equals the number of bytes
\* in patch.range and all bytes of that range equal byte, for runs of every
\* length (including runs longer than 255 bytes).
C29_RleFaithful ==
    (last.action \in {"find_any_run_length", "find_run_length"} /\ last.outcome = "found") =>
        LET patch == last.patch
        IN /\ Len(patch.new_data) = 3
           /\ patch.new_data[1] = OP_RLE
           /\ patch.range.start < patch.range.end
           /\ patch.range.end <= Len(last.before)
           /\ patch.new_data[3] = patch.range.end - patch.range.start
           /\ \A i \in (patch.range.start + 1) .. patch.range.end :
                  last.before[i] = patch.new_data[2]


\* C28: once the feeder is depleted, the adaptive host loop keeps running
\* cycles and stops only after the stream length has stayed unchanged and
\* nothing was fed for StagnationLimit consecutive cycles, or when
\* max_cycles is reached; it does not stop on the first cycle that feeds
\* zero bytes.
C28_StagnationStop ==
    host.state # "running" =>
        \/ host.cycle >= host.max_cycles
        \/ host.feeder.is_depleted /\ host.stagnant_cycles >= StagnationLimit


\* world.window satisfies start <= end <= world.data.len()
WindowInside(w) == w.window.start <= w.window.end /\ w.window.end <= Len(w.data)

\* C24: at the end of every Solver::live cycle (including cycles in which
\* repack_compressed_data shrank the buffer) and after every
\* refresh_focus_window (at the start of a cycle, at the end of a
\* ShiftWindow step), world.window satisfies start <= end <= world.data.len().
C24_FocusWindowBounds ==
    /\ (pc = "idle" /\ solver.cycle_count > 0) => WindowInside(world)
    /\ (pc = "loop" /\ last.action = "None") => WindowInside(world)
    /\ (pc \in {"loop", "end"} /\ last.action = "ShiftWindow") => WindowInside(world)

\* The word_ids with an entry in dictionary_words
DictionaryEntryIds(sv) == {w.word_id : w \in sv.dictionary_words}

\* The word_ids carried by Dictionary patterns in known_patterns
DictionaryPatternIds(sv) ==
    {sv.known_patterns[i].operator[2] :
        i \in {k \in 1 .. Len(sv.known_patterns) :
                  sv.known_patterns[k].operator[1] = "Dictionary"}}

\* C27: in every reachable Solver state between the operations of live
\* (after load_or_new, repack, forget_if_needed, meta_learn), the set of
\* word_ids with an entry in dictionary_words equals the set of word_ids
\* carried by Dictionary patterns in known_patterns.
C27_DictionaryAgrees == DictionaryEntryIds(solver) = DictionaryPatternIds(solver)


(***************************************************************************)
(* Collapse gating and greediness                                          *)
(***************************************************************************)
\* Is the pair at position i of s present in the pair index with a stored
\* pattern of strength >= 0.5?
Strong(b, s, i) ==
    /\ i < Len(s)
    /\ <<s[i], s[i + 1]>> \in DOMAIN b.pair_lookup
    /\ b.pair_lookup[<<s[i], s[i + 1]>>] \in DOMAIN b.patterns
    /\ b.patterns[b.pair_lookup[<<s[i], s[i + 1]>>]].strength >= TruthThreshold

\* The positions a left-to-right scan without overlap stops at from position
\* i on: i itself, then the one after it when i is copied and the one two
\* after it when the pair at i is substituted
RECURSIVE ScanFrom(_, _, _)
ScanFrom(b, s, i) ==
    IF i > Len(s) THEN {}
    ELSE {i} \cup ScanFrom(b, s, IF Strong(b, s, i) THEN i + 2 ELSE i + 1)

ScanPositions(b, s) == ScanFrom(b, s, 1)

\* The stream that the gated greedy scan writes: one token per scan position
GreedyStream(b, s) ==
    LET at == ScanPositions(b, s)
        nth(k) == CHOOSE i \in at : Cardinality({j \in at : j <= i}) = k
    IN [k \in 1 .. Cardinality(at) |->
           IF Strong(b, s, nth(k))
           THEN b.pair_lookup[<<s[nth(k)], s[nth(k) + 1]>>]
           ELSE s[nth(k)]]

\* The composites explore creates in a cycle on bank b and stream s
FreshComposites(b, s, c, top_pairs) ==
    DOMAIN explore(b, s, c, top_pairs).bank.patterns \ DOMAIN b.patterns

PairCount(s, p) ==
    Cardinality({i \in 1 .. (Len(s) - 1) : <<s[i], s[i + 1]>> = p})

\* C32: a call of explore leaves token_stream unchanged, every composite it
\* adds is Combine(l, r) for a pair (l, r) that stands at least pair_threshold
\* times at adjacent positions of the current stream, it adds at most
\* MAX_TOP_PAIRS composites, removes none, and the value it returns is the
\* increase of the composite count of the bank
C32_ExploreAccounting ==
    [][Explore =>
          /\ token_stream' = token_stream
          /\ Combines(bank) \subseteq Combines(bank')
          /\ combine_count(bank') - combine_count(bank) <= MAX_TOP_PAIRS
          /\ \A id \in Combines(bank') \ Combines(bank) :
                /\ bank'.patterns[id].op[1] = "Combine"
                /\ PairCount(token_stream, <<bank'.patterns[id].op[2],
                                             bank'.patterns[id].op[3]>>)
                       >= PairThreshold
          /\ \A top_pairs \in get_top_pairs(compute_pair_stats(token_stream),
                                            PairThreshold, MAX_TOP_PAIRS) :
                explore(bank, token_stream, cycle, top_pairs).bank = bank'
                => explore(bank, token_stream, cycle, top_pairs).created =
                       combine_count(bank') - combine_count(bank)]_vars

\* C32 witness: explore has added MAX_TOP_PAIRS composites to the two of the
\* start while an eleventh pair of the stream at the threshold has none
C32_Witness ==
    /\ combine_count(bank) = 2 + MAX_TOP_PAIRS
    /\ \E i \in 1 .. (Len(token_stream) - 1) :
          /\ PairCount(token_stream, <<token_stream[i], token_stream[i + 1]>>)
                 >= PairThreshold
          /\ ~has_pair(bank, token_stream[i], token_stream[i + 1])


\* The number of substitutions one collapse pass makes with the pattern id
Substitutions(b, s, id) ==
    Cardinality({i \in ScanPositions(b, s) :
                    Strong(b, s, i) /\ b.pair_lookup[<<s[i], s[i + 1]>>] = id})

\* C33: the strength of every pattern of the bank lies in [0, 1] in every
\* reachable state; explore creates composites with strength 0.5, the
\* strengthening of collapse stops at 1.0 and the weakening of decay at 0.0
\* (strengths and amounts in hundredths)
C33_StrengthInRange ==
    /\ [](\A id \in DOMAIN bank.patterns :
             /\ bank.patterns[id].strength >= 0
             /\ bank.patterns[id].strength <= StrengthMax)
    /\ [][/\ Explore =>
                \A id \in DOMAIN bank'.patterns \ DOMAIN bank.patterns :
                    bank'.patterns[id].strength = CombineStrength
          /\ Collapse =>
                \A id \in DOMAIN bank.patterns :
                    bank'.patterns[id].strength =
                        Min(bank.patterns[id].strength
                                + StrengthenAmount
                                    * Substitutions(bank, token_stream, id),
                            StrengthMax)
          /\ \A amount \in DecayRates :
                Decay(amount) =>
                    \A id \in Combines(bank) :
                        bank'.patterns[id].strength =
                            Max(bank.patterns[id].strength - amount, 0)]_vars

\* C33 witness: one composite has been decayed down to 0.0 and another has
\* been strengthened up to 1.0
C33_Witness ==
    /\ \E id \in Combines(bank) : bank.patterns[id].strength = 0
    /\ \E id \in Combines(bank) : bank.patterns[id].strength = StrengthMax


\* C34: in every reachable state of the bank, pair_lookup maps (l, r) to id
\* exactly when the pattern stored under id is Combine(l, r); so no two
\* composites of the bank have the same pair of children and no entry of the
\* index names a removed pattern
C34_PairIndexConsistent ==
    /\ \A p \in DOMAIN bank.pair_lookup :
          /\ bank.pair_lookup[p] \in DOMAIN bank.patterns
          /\ bank.patterns[bank.pair_lookup[p]].op = <<"Combine", p[1], p[2]>>
    /\ \A id \in Combines(bank) :
          /\ <<bank.patterns[id].op[2], bank.patterns[id].op[3]>>
                 \in DOMAIN bank.pair_lookup
          /\ bank.pair_lookup[<<bank.patterns[id].op[2], bank.patterns[id].op[3]>>] = id
    /\ \A id1 \in Combines(bank), id2 \in Combines(bank) :
          bank.patterns[id1].op = bank.patterns[id2].op => id1 = id2

\* C34 witness: a composite has been removed from the bank and the index
\* still holds the pair of another one
C34_Witness ==
    /\ \E id \in NumLiterals .. (bank.next_id - 1) : id \notin DOMAIN bank.patterns
    /\ DOMAIN bank.pair_lookup # {}


\* C35: the repeat-collapse loop of live() ends for every stream: a pass that
\* does not end the loop shortens the stream, and the loop is left at last;
\* when it is left, no adjacent pair of the stream is indexed with a stored
\* pattern of strength >= 0.5
C35_CollapseFixpoint ==
    /\ [][(LiveCollapse /\ pc' = "collapse")
             => Len(token_stream') < Len(token_stream)]_vars
    /\ [][(LiveCollapse /\ pc' = "forget")
             => \A i \in 1 .. (Len(token_stream') - 1) :
                   ~Strong(bank', token_stream', i)]_vars
    /\ (pc = "collapse") ~> (pc = "forget")

\* C35 witness: the loop has been left after more than one pass: the stream
\* holds a composite of composites created in this cycle
C35_Witness ==
    /\ pc = "forget"
    /\ \E i \in 1 .. Len(token_stream) :
          /\ token_stream[i] \in Combines(bank)
          /\ bank.patterns[token_stream[i]].op[2] \in Combines(bank)
          /\ bank.patterns[token_stream[i]].last_used = cycle


\* C36: for every buffer, calculate_total_cost = c_models + c_residual is the
\* length of the buffer, whatever opcodes it holds; so the gain measured for
\* an applied patch is the length of its range minus the length of its
\* new_data
C36_CostIsLength ==
    /\ calculate_total_cost(world.data) = Len(world.data)
    /\ calculate_cost_breakdown(world.data).c_models >= 0
    /\ calculate_cost_breakdown(world.data).c_residual >= 0
    /\ last.action = "apply_patch"
       => last.gain = (last.patch.range.end - last.patch.range.start)
                          - Len(last.patch.new_data)

\* C36 witness: a patch has been applied to a buffer in which operators were
\* charged as models and an opcode without room for its operands as residual
C36_Witness ==
    /\ last.action = "apply_patch"
    /\ last.gain # 0
    /\ calculate_cost_breakdown(last.before).c_models > 0
    /\ calculate_cost_breakdown(last.before).c_residual > 0
    /\ calculate_cost_breakdown(world.data).c_models >
           calculate_cost_breakdown(last.before).c_models
    /\ \E i \in 1 .. Len(last.before) : last.before[i] = OP_XOR


\* C37: a step of the loop of Solver::live that is decided while the gain
\* recorded in the cycle so far is <= 0 is never Exploit: it is MetaLearn,
\* ShiftWindow, or the Explore of the risk budget (quota_spent_explore below
\* a tenth of the cycle's quota, rounded up, and at least 10 quota left)
C37_StagnationBlocksExploit ==
    [][(LiveStep /\ total_gain(solver.stats) <= 0) =>
          /\ last'.action \in {"Explore", "MetaLearn", "ShiftWindow"}
          /\ last'.action = "Explore" =>
                /\ 10 * solver.stats.quota_spent_explore < solver.processing_quota
                /\ solver.current_quota >= ExploreFloorQuota]_vars

\* C37 witness: the Explore of the risk budget gained nothing and the next
\* step of the cycle, decided with gain 0, was ShiftWindow
C37_Witness ==
    /\ last.action = "ShiftWindow"
    /\ total_gain(last.stats_before) <= 0
    /\ last.stats_before.quota_spent_explore > 0


\* The 0-based positions of the references [OP_DICT, id_lo, id_hi] of data
\* (in the buffers of SpecDict no operand byte has the value OP_DICT)
DictRefStarts(data) ==
    {i \in 0 .. (Len(data) - DictRefLen) : data[i + 1] = OP_DICT}

\* The word_id of the reference at position i
RefWordId(data, i) == data[i + 2] + 256 * data[i + 3]

LoopEnded == pc = "end" \/ (pc = "loop" /\ solver.current_quota = 0)

\* C39: every iteration of the while loop of Solver::live either deducts at
\* least 1 from the remaining quota or breaks; a MetaLearn draw that the
\* remaining quota does not pay for breaks with the quota untouched; and the
\* loop, once entered, ends, whatever the scheduler draws
C39_LoopTerminates ==
    /\ [][LiveStep =>
            \/ pc' = "end"
            \/ pc' = "loop" /\ solver'.current_quota + 1 <= solver.current_quota]_vars
    /\ [][(LiveStep /\ last'.action = "MetaLearn" /\ solver.current_quota < MetaCost) =>
            /\ pc' = "end"
            /\ solver'.current_quota = solver.current_quota
            /\ solver'.current_quota > 0]_vars
    /\ (LoopRuns ~> LoopEnded)

\* A loop that an unaffordable MetaLearn draw has ended with quota left
C39_Witness ==
    /\ pc = "end"
    /\ last.action = "MetaLearn"
    /\ last.outcome = "skipped"
    /\ solver.current_quota > 0
    /\ solver.current_quota < solver.processing_quota

====
